---- MODULE Spec2Model ----
(***************************************************************************)
(* Model of the TrainDiary backend: the datastore tables the route         *)
(* handlers read and write, the identity resolver, the ownership chain of  *)
(* the AI surface (/api/ai/...), the legacy CRUD routes (/api/workouts,    *)
(* /api/meals) and WorkoutRepository.  One action is one request handler   *)
(* run to completion; the session-create handlers are also modelled step   *)
(* by step (existence check, then insert) for the interleavings of two     *)
(* concurrent requests.                                                    *)
(*                                                                         *)
(* Conventions.  A table is a set of rows (records).  A Supabase query     *)
(* with .single() is the operator single: the empty set stands for         *)
(* {data: null, error}.  SQL NULL in a numeric column is NULL; a field     *)
(* missing from a JSON body is ABSENT (numbers) or "" (strings, also the   *)
(* falsy string).  An id of 0 stands for a missing/falsy id in a body.     *)
(* difficulty_factor is held in tenths (15 is 1.5).  Dates are day         *)
(* numbers.  Columns no modelled decision reads (type, notes, meal_type,   *)
(* log_date, food macros) are left out.                                    *)
(* The datastore enforces only what the repository defines: no unique     *)
(* index on (user_id, scheduled_date) is declared anywhere in it.          *)
(***************************************************************************)
EXTENDS Integers, FiniteSets, Sequences, TLC

VARIABLES sessions, details, sets, meals, mealDetails, seq, resp, inflight, writes,
          users, now, goals

tables == <<sessions, details, sets, meals, mealDetails, seq>>
\* the users table, the clock `new Date()` reads and the nutrition_goals
\* table
auth == <<users, now, goals>>
vars == <<sessions, details, sets, meals, mealDetails, seq, resp, inflight, writes, users, now,
          goals>>

\* ---------------------------------------------------------------- bounds
MaxSessionId == 4
MaxDetailId == 4
MaxSetId == 4
MaxMealDetailId == 3
MaxDate == 2
\* mutating requests served in one behaviour
MaxWrites == 2
\* the last instant of the clock, and the verify and cleanup requests of one
\* behaviour that reach the datastore
MaxTime == 2
MaxAuthFlights == 3
\* create-session requests in flight at once
MaxInflight == 2

\* ------------------------------------------------------------- constants
NoUser == 0
NULL == -1
ABSENT == -2

Users == {1, 2}
Dates == 1..MaxDate

\* exercises (master data): type and difficulty_factor in tenths; NULL when unset
exerciseRow(e) == IF e = 1 THEN [type |-> "strength", difficulty_factor |-> 15]
                  ELSE [type |-> "Cardio", difficulty_factor |-> NULL]

\* ------------------------------------------------------ identity resolver
\* An Authorization header: absent, or "<scheme> <token>".
Tokens == {"jwt-user1", "jwt-user2", "forged"}
Headers == {[scheme |-> "none", token |-> ""], [scheme |-> "Basic", token |-> "jwt-user1"]}
             \cup {[scheme |-> "Bearer", token |-> t] : t \in Tokens}

\* jwt.verify: the payload's userId, or null (NoUser) when verification throws
verifyToken(token) == IF token = "jwt-user1" THEN 1
                      ELSE IF token = "jwt-user2" THEN 2
                      ELSE NoUser

\* lib/auth getAuthUser
getAuthUser(h) == IF h.scheme = "none" THEN NoUser
                  ELSE IF h.scheme # "Bearer" THEN NoUser
                  ELSE verifyToken(h.token)

\* api/ai/utils validateJWT (authenticate wraps it: null -> 401 UNAUTHORIZED)
validateJWT(h) == IF h.scheme = "none" THEN NoUser
                  ELSE IF h.scheme # "Bearer" THEN NoUser
                  ELSE verifyToken(h.token)

\* --------------------------------------------------------------- datastore
\* .single(): exactly one row, else an error with data null
single(S) == IF Cardinality(S) = 1 THEN S ELSE {}
the(S) == CHOOSE x \in S : TRUE

sessionRows(id) == {s \in sessions : s.session_id = id}
detailRows(id) == {d \in details : d.session_detail_id = id}
setRows(id) == {s \in sets : s.set_id = id}
mealRows(id) == {m \in meals : m.meal_id = id}
mealDetailRows(id) == {m \in mealDetails : m.meal_detail_id = id}

\* a response, with the request it answers (op, token user, ids named)
Reply(op, user, ids, status, code, rows, count) ==
  [op |-> op, user |-> user, ids |-> ids, status |-> status, code |-> code,
   rows |-> rows, count |-> count]

\* the two owners verified long ago, and two signups still waiting for their
\* code or token; codes are unique (AuthService.signup draws again until
\* no user holds the code) and tokens are 32 random bytes
InitUsers ==
  {[user_id |-> 1, verified |-> TRUE, verification_code |-> NULL,
    verification_token |-> NULL, verification_expires_at |-> NULL],
   [user_id |-> 2, verified |-> TRUE, verification_code |-> NULL,
    verification_token |-> NULL, verification_expires_at |-> NULL],
   [user_id |-> 3, verified |-> FALSE, verification_code |-> 1,
    verification_token |-> 1, verification_expires_at |-> 1],
   [user_id |-> 4, verified |-> FALSE, verification_code |-> 2,
    verification_token |-> 2, verification_expires_at |-> 0]}

Init ==
  /\ users = InitUsers
  /\ goals = {}
  /\ now = 0
  /\ sessions = {[session_id |-> 1, user_id |-> 1, scheduled_date |-> 1, status |-> "PENDING", gr_score |-> NULL],
                 [session_id |-> 2, user_id |-> 2, scheduled_date |-> 1, status |-> "PENDING", gr_score |-> NULL]}
  /\ details = {[session_detail_id |-> 1, session_id |-> 1, exercise_id |-> 1, status |-> "UNFINISHED"],
                [session_detail_id |-> 2, session_id |-> 2, exercise_id |-> 1, status |-> "UNFINISHED"]}
  /\ sets = {[set_id |-> 1, session_detail_id |-> 1, reps |-> 5, weight_kg |-> 3, duration |-> 0, status |-> "UNFINISHED"],
             [set_id |-> 2, session_detail_id |-> 2, reps |-> 5, weight_kg |-> 3, duration |-> 0, status |-> "UNFINISHED"]}
  /\ meals = {[meal_id |-> 1, user_id |-> 1], [meal_id |-> 2, user_id |-> 2]}
  /\ mealDetails = {[meal_detail_id |-> 1, meal_id |-> 1, food_id |-> 1, numbers_of_serving |-> 1],
                    [meal_detail_id |-> 2, meal_id |-> 2, food_id |-> 1, numbers_of_serving |-> 1]}
  /\ seq = [sessions |-> 3, details |-> 3, sets |-> 3, mealDetails |-> 3]
  /\ resp = Reply("none", NoUser, {}, 0, "", {}, 0)
  /\ inflight = <<>>
  /\ writes = 0

\* no response is pending: the next request can be taken
idle == resp.op = "none"

\* a request that wrote to the datastore has been served
served == writes < MaxWrites /\ writes' = writes + 1

\* ------------------------------------------------- ownership chain (AI)
\* `sessionError || !session || session.user_id !== user!.userId`
\* (broken variant: a foreign root passes)
notOwnedBy_absentOnly(root, userId) == root = {}
notOwnedBy(root, userId) == root = {} \/ the(root).user_id # userId

\* `sessions.every((s) => s.user_id === user!.userId)`
\* (broken variant: one own root is enough)
everyOwnedBy_some(roots, userId) == roots = {} \/ \E r \in roots : r.user_id = userId
everyOwnedBy(roots, userId) == \A r \in roots : r.user_id = userId

\* `x || null`, `x || 0` on a number that may be missing from the body
orNull(x) == IF x = ABSENT \/ x = 0 THEN NULL ELSE x
orZero(x) == IF x = ABSENT \/ x = 0 THEN 0 ELSE x

\* ------------------------------------------------------- /api/ai/sets
SetsGET(h, session_detail_id) ==
  /\ idle
  /\ LET op == "GET /api/ai/sets"
         user == validateJWT(h)
         ids == {session_detail_id}
         sessionDetail == single(detailRows(session_detail_id))
         session == IF sessionDetail = {} THEN {} ELSE single(sessionRows(the(sessionDetail).session_id))
         data == {s \in sets : s.session_detail_id = session_detail_id}
     IN
     /\ resp' = IF user = NoUser THEN Reply(op, user, ids, 401, "UNAUTHORIZED", {}, 0)
                ELSE IF session_detail_id = 0 THEN Reply(op, user, ids, 400, "VALIDATION_ERROR", {}, 0)
                ELSE IF sessionDetail = {} THEN Reply(op, user, ids, 404, "ENTITY_NOT_FOUND", {}, 0)
                ELSE IF notOwnedBy(session, user) THEN Reply(op, user, ids, 404, "ENTITY_NOT_FOUND", {}, 0)
                ELSE Reply(op, user, ids, 200, "", {<<"sets", s.set_id>> : s \in data}, 0)
     /\ UNCHANGED <<auth, tables, inflight, writes>>

SetsPOST(h, session_detail_id, body) ==
  /\ idle
  /\ LET op == "POST /api/ai/sets"
         user == validateJWT(h)
         ids == {session_detail_id}
         sessionDetail == single(detailRows(session_detail_id))
         session == IF sessionDetail = {} THEN {} ELSE single(sessionRows(the(sessionDetail).session_id))
         row == [set_id |-> seq.sets, session_detail_id |-> session_detail_id,
                 reps |-> orNull(body.reps), weight_kg |-> orNull(body.weight_kg),
                 duration |-> orZero(body.duration), status |-> body.status]
     IN
     IF user = NoUser THEN
       resp' = Reply(op, user, ids, 401, "UNAUTHORIZED", {}, 0) /\ UNCHANGED <<auth, tables, inflight, writes>>
     ELSE IF session_detail_id = 0 \/ body.status = "" THEN
       resp' = Reply(op, user, ids, 400, "VALIDATION_ERROR", {}, 0) /\ UNCHANGED <<auth, tables, inflight, writes>>
     ELSE IF sessionDetail = {} THEN
       resp' = Reply(op, user, ids, 404, "ENTITY_NOT_FOUND", {}, 0) /\ UNCHANGED <<auth, tables, inflight, writes>>
     ELSE IF notOwnedBy(session, user) THEN
       resp' = Reply(op, user, ids, 403, "ACCESS_DENIED", {}, 0) /\ UNCHANGED <<auth, tables, inflight, writes>>
     ELSE
       /\ seq.sets <= MaxSetId
       /\ sets' = sets \cup {row}
       /\ seq' = [seq EXCEPT !.sets = @ + 1]
       /\ resp' = Reply(op, user, ids, 201, "", {<<"sets", row.set_id>>}, 0)
       /\ served
       /\ UNCHANGED <<auth, sessions, details, meals, mealDetails, inflight>>

\* the update object PUT /api/ai/sets builds from the body
setUpdate(old, body) ==
  [old EXCEPT !.reps = IF body.reps # ABSENT THEN body.reps ELSE @,
              !.weight_kg = IF body.weight_kg # ABSENT THEN body.weight_kg ELSE @,
              !.status = IF body.status # "" THEN body.status ELSE @,
              !.duration = IF body.duration # ABSENT THEN body.duration ELSE @]

SetsPUT(h, set_id, body) ==
  /\ idle
  /\ LET op == "PUT /api/ai/sets"
         user == validateJWT(h)
         ids == {set_id}
         exerciseDetail == single(setRows(set_id))
         sessionDetail == IF exerciseDetail = {} THEN {} ELSE single(detailRows(the(exerciseDetail).session_detail_id))
         session == IF sessionDetail = {} THEN {} ELSE single(sessionRows(the(sessionDetail).session_id))
     IN
     IF user = NoUser THEN
       resp' = Reply(op, user, ids, 401, "UNAUTHORIZED", {}, 0) /\ UNCHANGED <<auth, tables, inflight, writes>>
     ELSE IF set_id = 0 THEN
       resp' = Reply(op, user, ids, 400, "VALIDATION_ERROR", {}, 0) /\ UNCHANGED <<auth, tables, inflight, writes>>
     ELSE IF exerciseDetail = {} THEN
       resp' = Reply(op, user, ids, 404, "ENTITY_NOT_FOUND", {}, 0) /\ UNCHANGED <<auth, tables, inflight, writes>>
     ELSE IF sessionDetail = {} THEN
       resp' = Reply(op, user, ids, 404, "ENTITY_NOT_FOUND", {}, 0) /\ UNCHANGED <<auth, tables, inflight, writes>>
     ELSE IF notOwnedBy(session, user) THEN
       resp' = Reply(op, user, ids, 403, "ACCESS_DENIED", {}, 0) /\ UNCHANGED <<auth, tables, inflight, writes>>
     ELSE
       /\ sets' = {IF s.set_id = set_id THEN setUpdate(s, body) ELSE s : s \in sets}
       /\ resp' = Reply(op, user, ids, 200, "", {}, 0)
       /\ served
       /\ UNCHANGED <<auth, sessions, details, meals, mealDetails, seq, inflight>>

\* ids is the body's id array (without repetitions); {} is a missing or empty array
SetsDELETE(h, ids) ==
  /\ idle
  /\ LET op == "DELETE /api/ai/sets"
         user == validateJWT(h)
         found == {s \in sets : s.set_id \in ids}
         sessionDetailIds == {s.session_detail_id : s \in found}
         sessionDetails == {d \in details : d.session_detail_id \in sessionDetailIds}
         sessionIds == {d.session_id : d \in sessionDetails}
         owners == {s \in sessions : s.session_id \in sessionIds}
     IN
     IF user = NoUser THEN
       resp' = Reply(op, user, ids, 401, "UNAUTHORIZED", {}, 0) /\ UNCHANGED <<auth, tables, inflight, writes>>
     ELSE IF ids = {} THEN
       resp' = Reply(op, user, ids, 400, "VALIDATION_ERROR", {}, 0) /\ UNCHANGED <<auth, tables, inflight, writes>>
     ELSE IF ~everyOwnedBy(owners, user) THEN
       resp' = Reply(op, user, ids, 403, "ACCESS_DENIED", {}, 0) /\ UNCHANGED <<auth, tables, inflight, writes>>
     ELSE
       /\ sets' = {s \in sets : s.set_id \notin ids}
       /\ resp' = Reply(op, user, ids, 200, "", {}, Cardinality(ids))
       /\ served
       /\ UNCHANGED <<auth, sessions, details, meals, mealDetails, seq, inflight>>

\* ------------------------------------------- /api/ai/session-details
SessionDetailsGET(h, session_id) ==
  /\ idle
  /\ LET op == "GET /api/ai/session-details"
         user == validateJWT(h)
         ids == {session_id}
         sessionData == single(sessionRows(session_id))
         data == {d \in details : d.session_id = session_id}
     IN
     /\ resp' = IF user = NoUser THEN Reply(op, user, ids, 401, "UNAUTHORIZED", {}, 0)
                ELSE IF session_id = 0 THEN Reply(op, user, ids, 400, "VALIDATION_ERROR", {}, 0)
                ELSE IF notOwnedBy(sessionData, user) THEN Reply(op, user, ids, 404, "ENTITY_NOT_FOUND", {}, 0)
                ELSE Reply(op, user, ids, 200, "", {<<"details", d.session_detail_id>> : d \in data}, 0)
     /\ UNCHANGED <<auth, tables, inflight, writes>>

SessionDetailsPOST(h, session_id, exercise_id, status) ==
  /\ idle
  /\ LET op == "POST /api/ai/session-details"
         user == validateJWT(h)
         ids == {session_id}
         sessionData == single(sessionRows(session_id))
         row == [session_detail_id |-> seq.details, session_id |-> session_id,
                 exercise_id |-> exercise_id, status |-> IF status = "" THEN "pending" ELSE status]
     IN
     IF user = NoUser THEN
       resp' = Reply(op, user, ids, 401, "UNAUTHORIZED", {}, 0) /\ UNCHANGED <<auth, tables, inflight, writes>>
     ELSE IF session_id = 0 \/ exercise_id = 0 THEN
       resp' = Reply(op, user, ids, 400, "VALIDATION_ERROR", {}, 0) /\ UNCHANGED <<auth, tables, inflight, writes>>
     ELSE IF notOwnedBy(sessionData, user) THEN
       resp' = Reply(op, user, ids, 403, "ACCESS_DENIED", {}, 0) /\ UNCHANGED <<auth, tables, inflight, writes>>
     ELSE
       /\ seq.details <= MaxDetailId
       /\ details' = details \cup {row}
       /\ seq' = [seq EXCEPT !.details = @ + 1]
       /\ resp' = Reply(op, user, ids, 201, "", {<<"details", row.session_detail_id>>}, 0)
       /\ served
       /\ UNCHANGED <<auth, sessions, sets, meals, mealDetails, inflight>>

\* batch status update; ids = {} with noIds is a body without an ids array
SessionDetailsPUT(h, ids, noIds, status) ==
  /\ idle
  /\ LET op == "PUT /api/ai/session-details"
         user == validateJWT(h)
         sessionDetails == {d \in details : d.session_detail_id \in ids}
         sessionIds == {d.session_id : d \in sessionDetails}
         owners == {s \in sessions : s.session_id \in sessionIds}
     IN
     IF user = NoUser THEN
       resp' = Reply(op, user, ids, 401, "UNAUTHORIZED", {}, 0) /\ UNCHANGED <<auth, tables, inflight, writes>>
     ELSE IF noIds \/ status = "" THEN
       resp' = Reply(op, user, ids, 400, "VALIDATION_ERROR", {}, 0) /\ UNCHANGED <<auth, tables, inflight, writes>>
     ELSE IF ~everyOwnedBy(owners, user) THEN
       resp' = Reply(op, user, ids, 403, "ACCESS_DENIED", {}, 0) /\ UNCHANGED <<auth, tables, inflight, writes>>
     ELSE
       /\ details' = {IF d.session_detail_id \in ids THEN [d EXCEPT !.status = status] ELSE d : d \in details}
       /\ resp' = Reply(op, user, ids, 200, "", {}, Cardinality(ids))
       /\ served
       /\ UNCHANGED <<auth, sessions, sets, meals, mealDetails, seq, inflight>>

\* ------------------------------------------------ /api/ai/meal-foods
\* foods is the body's foods[] (<<>> when missing or empty); an item's food_id 0
\* or numbers_of_serving ABSENT is a missing field
RECURSIVE mealDetailInserts(_, _, _)
mealDetailInserts(meal_id, foods, firstId) ==
  IF foods = <<>> THEN {}
  ELSE {[meal_detail_id |-> firstId, meal_id |-> meal_id, food_id |-> Head(foods).food_id,
         numbers_of_serving |-> Head(foods).numbers_of_serving]}
       \cup mealDetailInserts(meal_id, Tail(foods), firstId + 1)

MealFoodsPOST(h, meal_id, foods) ==
  /\ idle
  /\ LET op == "POST /api/ai/meal-foods"
         user == validateJWT(h)
         ids == {meal_id}
         meal == single(mealRows(meal_id))
         rows == mealDetailInserts(meal_id, foods, seq.mealDetails)
     IN
     IF user = NoUser THEN
       resp' = Reply(op, user, ids, 401, "UNAUTHORIZED", {}, 0) /\ UNCHANGED <<auth, tables, inflight, writes>>
     ELSE IF meal_id = 0 \/ foods = <<>> THEN
       resp' = Reply(op, user, ids, 400, "VALIDATION_ERROR", {}, 0) /\ UNCHANGED <<auth, tables, inflight, writes>>
     ELSE IF notOwnedBy(meal, user) THEN
       resp' = Reply(op, user, ids, 403, "ACCESS_DENIED", {}, 0) /\ UNCHANGED <<auth, tables, inflight, writes>>
     ELSE IF \E i \in 1..Len(foods) : foods[i].food_id = 0 \/ foods[i].numbers_of_serving = ABSENT THEN
       resp' = Reply(op, user, ids, 400, "VALIDATION_ERROR", {}, 0) /\ UNCHANGED <<auth, tables, inflight, writes>>
     ELSE
       /\ seq.mealDetails + Len(foods) - 1 <= MaxMealDetailId
       /\ mealDetails' = mealDetails \cup rows
       /\ seq' = [seq EXCEPT !.mealDetails = @ + Len(foods)]
       /\ resp' = Reply(op, user, ids, 201, "",
                        {<<"mealDetails", m.meal_detail_id>> : m \in {x \in mealDetails \cup rows : x.meal_id = meal_id}}, 0)
       /\ served
       /\ UNCHANGED <<auth, sessions, details, sets, meals, inflight>>

MealFoodsPUT(h, meal_detail_id, numbers_of_serving) ==
  /\ idle
  /\ LET op == "PUT /api/ai/meal-foods"
         user == validateJWT(h)
         ids == {meal_detail_id}
         mealDetail == single(mealDetailRows(meal_detail_id))
         meal == IF mealDetail = {} THEN {} ELSE single(mealRows(the(mealDetail).meal_id))
     IN
     IF user = NoUser THEN
       resp' = Reply(op, user, ids, 401, "UNAUTHORIZED", {}, 0) /\ UNCHANGED <<auth, tables, inflight, writes>>
     ELSE IF meal_detail_id = 0 \/ numbers_of_serving = ABSENT THEN
       resp' = Reply(op, user, ids, 400, "VALIDATION_ERROR", {}, 0) /\ UNCHANGED <<auth, tables, inflight, writes>>
     ELSE IF mealDetail = {} THEN
       resp' = Reply(op, user, ids, 404, "ENTITY_NOT_FOUND", {}, 0) /\ UNCHANGED <<auth, tables, inflight, writes>>
     ELSE IF notOwnedBy(meal, user) THEN
       resp' = Reply(op, user, ids, 403, "ACCESS_DENIED", {}, 0) /\ UNCHANGED <<auth, tables, inflight, writes>>
     ELSE
       /\ mealDetails' = {IF m.meal_detail_id = meal_detail_id
                          THEN [m EXCEPT !.numbers_of_serving = numbers_of_serving] ELSE m : m \in mealDetails}
       /\ resp' = Reply(op, user, ids, 200, "", {}, 0)
       /\ served
       /\ UNCHANGED <<auth, sessions, details, sets, meals, seq, inflight>>

MealFoodsDELETE(h, ids) ==
  /\ idle
  /\ LET op == "DELETE /api/ai/meal-foods"
         user == validateJWT(h)
         found == {m \in mealDetails : m.meal_detail_id \in ids}
         mealIds == {m.meal_id : m \in found}
         owners == {m \in meals : m.meal_id \in mealIds}
     IN
     IF user = NoUser THEN
       resp' = Reply(op, user, ids, 401, "UNAUTHORIZED", {}, 0) /\ UNCHANGED <<auth, tables, inflight, writes>>
     ELSE IF ids = {} THEN
       resp' = Reply(op, user, ids, 400, "VALIDATION_ERROR", {}, 0) /\ UNCHANGED <<auth, tables, inflight, writes>>
     ELSE IF ~everyOwnedBy(owners, user) THEN
       resp' = Reply(op, user, ids, 403, "ACCESS_DENIED", {}, 0) /\ UNCHANGED <<auth, tables, inflight, writes>>
     ELSE
       /\ mealDetails' = {m \in mealDetails : m.meal_detail_id \notin ids}
       /\ resp' = Reply(op, user, ids, 200, "", {}, Cardinality(ids))
       /\ served
       /\ UNCHANGED <<auth, sessions, details, sets, meals, seq, inflight>>

\* GET /api/ai/meal-foods/{id}
MealFoodsGET(h, mealId) ==
  /\ idle
  /\ LET op == "GET /api/ai/meal-foods/{id}"
         user == validateJWT(h)
         ids == {mealId}
         meal == single({m \in meals : m.meal_id = mealId /\ m.user_id = user})
         foods == {m \in mealDetails : m.meal_id = mealId}
     IN
     /\ resp' = IF user = NoUser THEN Reply(op, user, ids, 401, "UNAUTHORIZED", {}, 0)
                ELSE IF meal = {} THEN Reply(op, user, ids, 404, "NOT_FOUND", {}, 0)
                ELSE Reply(op, user, ids, 200, "", {<<"mealDetails", m.meal_detail_id>> : m \in foods}, 0)
     /\ UNCHANGED <<auth, tables, inflight, writes>>

\* ------------------------------------------------------ request inputs
MaxBatch == 2
batches(S) == {b \in SUBSET S : Cardinality(b) <= MaxBatch}
SetIdsIn == 0..(MaxSetId + 1)
DetailIdsIn == 0..(MaxDetailId + 1)
SessionIdsIn == 0..(MaxSessionId + 1)
MealIdsIn == 0..3
MealDetailIdsIn == 0..(MaxMealDetailId + 1)
SetBodiesIn == {[reps |-> 4, weight_kg |-> ABSENT, duration |-> ABSENT, status |-> "COMPLETED"],
                [reps |-> ABSENT, weight_kg |-> ABSENT, duration |-> 30, status |-> "COMPLETED"],
                [reps |-> ABSENT, weight_kg |-> ABSENT, duration |-> ABSENT, status |-> ""]}
FoodListsIn == {<<>>, <<[food_id |-> 1, numbers_of_serving |-> 2]>>,
                <<[food_id |-> 1, numbers_of_serving |-> 2], [food_id |-> 2, numbers_of_serving |-> ABSENT]>>}

\* ---------------------------------------- the AI surface on nested rows
\* the route export hands the handler's response back to the client; the
\* next request is then taken (requests are served one at a time here, each
\* handler being one step)
ReturnResponse ==
  /\ ~idle
  /\ resp' = Reply("none", NoUser, {}, 0, "", {}, 0)
  /\ UNCHANGED <<auth, tables, inflight, writes>>

AiRequest ==
  \E h \in Headers :
    \/ \E id \in DetailIdsIn : SetsGET(h, id)
    \/ \E id \in DetailIdsIn, body \in SetBodiesIn : SetsPOST(h, id, body)
    \/ \E id \in SetIdsIn, body \in SetBodiesIn : SetsPUT(h, id, body)
    \/ \E ids \in batches(SetIdsIn \ {0}) : SetsDELETE(h, ids)
    \/ \E id \in SessionIdsIn : SessionDetailsGET(h, id)
    \/ \E id \in SessionIdsIn, e \in {0, 1}, st \in {"", "skipped"} : SessionDetailsPOST(h, id, e, st)
    \/ \E ids \in batches(DetailIdsIn \ {0}), st \in {"", "skipped"} : SessionDetailsPUT(h, ids, FALSE, st)
    \/ SessionDetailsPUT(h, {}, TRUE, "skipped")
    \/ \E id \in MealIdsIn, foods \in FoodListsIn : MealFoodsPOST(h, id, foods)
    \/ \E id \in MealDetailIdsIn, n \in {ABSENT, 2} : MealFoodsPUT(h, id, n)
    \/ \E ids \in batches(MealDetailIdsIn \ {0}) : MealFoodsDELETE(h, ids)
    \/ \E id \in MealIdsIn : MealFoodsGET(h, id)

NextAI == AiRequest \/ ReturnResponse

SpecAI == Init /\ [][NextAI]_vars

\* ----------------------------------------------- who owns what (chain)
sessionOwners(id) == {s.user_id : s \in sessionRows(id)}
detailOwners(id) == UNION {sessionOwners(d.session_id) : d \in detailRows(id)}
setOwners(id) == UNION {detailOwners(s.session_detail_id) : s \in setRows(id)}
mealOwners(id) == {m.user_id : m \in mealRows(id)}
mealDetailOwners(id) == UNION {mealOwners(m.meal_id) : m \in mealDetailRows(id)}

\* the rows a user owns, by table
rowsOf(u) ==
  [sessions |-> {s \in sessions : s.user_id = u},
   details |-> {d \in details : u \in detailOwners(d.session_detail_id)},
   sets |-> {s \in sets : u \in setOwners(s.set_id)},
   meals |-> {m \in meals : m.user_id = u},
   mealDetails |-> {m \in mealDetails : u \in mealDetailOwners(m.meal_detail_id)}]

\* references <<table, id>> to the rows a user owns
refsOf(u) ==
  {<<"sessions", s.session_id>> : s \in rowsOf(u).sessions}
    \cup {<<"details", d.session_detail_id>> : d \in rowsOf(u).details}
    \cup {<<"sets", s.set_id>> : s \in rowsOf(u).sets}
    \cup {<<"meals", m.meal_id>> : m \in rowsOf(u).meals}
    \cup {<<"mealDetails", m.meal_detail_id>> : m \in rowsOf(u).mealDetails}

\* the table whose ids a request of the AI surface names
namedTable(op) ==
  CASE op \in {"PUT /api/ai/sets", "DELETE /api/ai/sets"} -> "sets"
    [] op \in {"GET /api/ai/sets", "POST /api/ai/sets", "PUT /api/ai/session-details"} -> "details"
    [] op \in {"GET /api/ai/session-details", "POST /api/ai/session-details"} -> "sessions"
    [] op \in {"POST /api/ai/meal-foods", "GET /api/ai/meal-foods/{id}"} -> "meals"
    [] op \in {"PUT /api/ai/meal-foods", "DELETE /api/ai/meal-foods"} -> "mealDetails"
    [] OTHER -> "none"

ownersOf(table, id) ==
  CASE table = "sets" -> setOwners(id)
    [] table = "details" -> detailOwners(id)
    [] table = "sessions" -> sessionOwners(id)
    [] table = "meals" -> mealOwners(id)
    [] table = "mealDetails" -> mealDetailOwners(id)
    [] OTHER -> {}

\* the users owning a row that one of the named ids resolves to
namedOwners(op, ids) == UNION {ownersOf(namedTable(op), id) : id \in ids}
\* the named ids that resolve to no row, or to a row whose chain is broken
namedMissing(op, ids) == {id \in ids : ownersOf(namedTable(op), id) = {}}

AiNestedOps == {"GET /api/ai/sets", "POST /api/ai/sets", "PUT /api/ai/sets", "DELETE /api/ai/sets",
                "GET /api/ai/session-details", "POST /api/ai/session-details", "PUT /api/ai/session-details",
                "POST /api/ai/meal-foods", "PUT /api/ai/meal-foods", "DELETE /api/ai/meal-foods",
                "GET /api/ai/meal-foods/{id}"}

\* what C1 asks of one step for the victim a, given the statuses allowed
foreignRefused(a, statuses) ==
  (/\ resp'.op \in AiNestedOps
   /\ resp'.user \notin {NoUser, a}
   /\ a \in namedOwners(resp'.op, resp'.ids))
  => /\ resp'.status \in statuses
     /\ resp'.status = 400 => resp'.code = "VALIDATION_ERROR"
     /\ resp'.rows \cap (refsOf(a) \cup refsOf(a)') = {}
     /\ rowsOf(a)' = rowsOf(a)

\* C1 (as amended): a request of the AI surface on sets, session details and
\* meal details that is authenticated as user B and names any id resolving to
\* a session or meal of another user A is answered 403 or 404, or 400
\* VALIDATION_ERROR when its body is malformed (the body is validated before
\* the chain is looked up); in every case it returns none of A's rows and
\* leaves every row of A unchanged.
C1_ForeignIdsAreRefused ==
  [][\A a \in Users : foreignRefused(a, {400, 403, 404})]_vars

\* C1 (as stated): such a request is always answered 403 or 404, returns none
\* of A's rows and leaves every row of A unchanged.
C1_AsStated ==
  [][\A a \in Users : foreignRefused(a, {403, 404})]_vars

\* user 2 named a set of user 1 together with one of its own and was refused
C1_Witness ==
  /\ resp.op = "DELETE /api/ai/sets" /\ resp.user = 2 /\ resp.status = 403
  /\ 1 \in namedOwners(resp.op, resp.ids) /\ 2 \in namedOwners(resp.op, resp.ids)

\* C6: a batch delete of set ids or of meal-detail ids in which at least one
\* id belongs to another user's session or meal is answered with an error and
\* deletes none of the listed rows, the caller's own included.
C6_BatchDeleteAllOrNothing ==
  [][(/\ resp'.op \in {"DELETE /api/ai/sets", "DELETE /api/ai/meal-foods"}
      /\ resp'.user # NoUser
      /\ namedOwners(resp'.op, resp'.ids) \ {resp'.user} # {})
     => /\ resp'.status >= 400
        /\ sets' = sets /\ mealDetails' = mealDetails]_vars

\* user 1 listed a meal detail of its own and one of user 2: refused, both kept
C6_Witness ==
  /\ resp.op = "DELETE /api/ai/meal-foods" /\ resp.user = 1 /\ resp.status = 403
  /\ namedOwners(resp.op, resp.ids) = {1, 2}
  /\ \A id \in resp.ids : mealDetailRows(id) # {}

BatchOps == {"DELETE /api/ai/sets", "DELETE /api/ai/meal-foods", "PUT /api/ai/session-details"}
SingleMutationOps == {"POST /api/ai/sets", "PUT /api/ai/sets", "POST /api/ai/session-details",
                      "POST /api/ai/meal-foods", "PUT /api/ai/meal-foods"}

\* C8: a well-formed batch operation (DELETE sets, DELETE meal-foods, PUT
\* session-details) listing at least one id that does not exist never reports
\* success and changes nothing.
C8_MissingIdNeverSucceeds ==
  [][(/\ resp'.op \in BatchOps
      /\ resp'.user # NoUser
      /\ resp'.code # "VALIDATION_ERROR"
      /\ namedMissing(resp'.op, resp'.ids) # {})
     => /\ resp'.status >= 400
        /\ tables' = tables]_vars

\* C9: a well-formed single-resource mutation of the AI surface is answered
\* 404 ENTITY_NOT_FOUND whenever a row of the chain from the named id to its
\* session or meal is absent, and 403 ACCESS_DENIED exactly when the whole
\* chain exists and its root belongs to another user.
C9_NotFoundBeforeDenied ==
  [][(/\ resp'.op \in SingleMutationOps
      /\ resp'.user # NoUser
      /\ resp'.code # "VALIDATION_ERROR")
     => LET owners == namedOwners(resp'.op, resp'.ids) IN
        /\ owners = {} => (resp'.status = 404 /\ resp'.code = "ENTITY_NOT_FOUND")
        /\ (resp'.status = 403 /\ resp'.code = "ACCESS_DENIED")
             <=> (owners # {} /\ resp'.user \notin owners)]_vars

\* ======================================================================
\* Legacy CRUD surface and /api/ai/sessions
\* ======================================================================

\* ------------------------------------------------------------- gr_score
\* `detail.exercise?.difficulty_factor || 1.0`, in tenths
difficultyOf(exercise_id) ==
  LET f == exerciseRow(exercise_id).difficulty_factor
  IN IF f = NULL \/ f = 0 THEN 10 ELSE f

\* `log.reps || 0`, `log.weight_kg || 0` on a nullable column
nz(x) == IF x = NULL THEN 0 ELSE x

\* sum over the logs of one detail of reps * weight
RECURSIVE logsVolume(_)
logsVolume(logs) ==
  IF logs = {} THEN 0
  ELSE LET l == CHOOSE x \in logs : TRUE
       IN nz(l.reps) * nz(l.weight_kg) + logsVolume(logs \ {l})

\* totalGrScore in tenths over the details ds, their logs taken from ss
RECURSIVE totalGrScore(_, _)
totalGrScore(ds, ss) ==
  IF ds = {} THEN 0
  ELSE LET d == CHOOSE x \in ds : TRUE
       IN logsVolume({s \in ss : s.session_detail_id = d.session_detail_id}) * difficultyOf(d.exercise_id)
            + totalGrScore(ds \ {d}, ss)

\* Math.round of a non-negative number of tenths
\* (broken variant: truncates)
roundTenths_floor(x) == x \div 10
roundTenths(x) == (x + 5) \div 10

\* the score of a session over the tables ds (session_details) and ss (sets)
grScore(sessionId, ds, ss) ==
  roundTenths(totalGrScore({d \in ds : d.session_id = sessionId}, ss))

\* normalizeExerciseType(type) === 'cardio'
normalizeExerciseType(type) ==
  IF type = "Cardio" \/ type = "CARDIO" \/ type = "cardio" THEN "cardio"
  ELSE IF type = "Strength" \/ type = "strength" THEN "strength"
  ELSE type

\* isCardioBySessionDetailId; "error" when the .single() on the detail fails
isCardioBySessionDetailId(sessionDetailId) ==
  LET data == single(detailRows(sessionDetailId))
  IN IF data = {} THEN "error"
     ELSE IF normalizeExerciseType(exerciseRow(the(data).exercise_id).type) = "cardio" THEN "yes"
     ELSE "no"

\* isCardioByLogId
isCardioByLogId(logId) ==
  LET data == single(setRows(logId))
  IN IF data = {} THEN "error" ELSE isCardioBySessionDetailId(the(data).session_detail_id)

\* -------------------------------------- WorkoutRepository (log.repository)
\* createLog: the row inserted for a log of detail sessionDetailId
createLogRow(sessionDetailId, logData, isCardio) ==
  [set_id |-> seq.sets, session_detail_id |-> sessionDetailId,
   reps |-> IF isCardio THEN 0 ELSE orZero(logData.reps),
   duration |-> IF isCardio THEN orZero(logData.duration) ELSE 0,
   weight_kg |-> IF isCardio THEN 0 ELSE orZero(logData.weight_kg),
   status |-> IF logData.status = "" THEN "UNFINISHED" ELSE logData.status]

\* updateLog: the row after the update object has been applied
updateLogRow(old, logData, isCardio) ==
  [old EXCEPT
     !.reps = IF ~isCardio /\ logData.reps # ABSENT THEN logData.reps ELSE @,
     !.duration = IF isCardio /\ logData.duration # ABSENT THEN logData.duration ELSE @,
     !.weight_kg = IF ~isCardio /\ logData.weight_kg # ABSENT THEN logData.weight_kg ELSE @,
     !.status = IF logData.status # "" THEN logData.status ELSE @]

\* updateSession: the status the update object carries, "" when none
updateStatus(sessionData) ==
  IF sessionData.status # "" THEN sessionData.status
  ELSE IF sessionData.completed = "true" THEN "COMPLETED"
  ELSE IF sessionData.completed = "false" THEN "IN_PROGRESS"
  ELSE ""

\* (broken variant: adds the new score to the stored one)
updateSessionRow_accumulate(old, sessionData) ==
  [old EXCEPT
     !.scheduled_date = IF sessionData.scheduled_date # ABSENT THEN sessionData.scheduled_date ELSE @,
     !.status = IF updateStatus(sessionData) # "" THEN updateStatus(sessionData) ELSE @,
     !.gr_score = IF updateStatus(sessionData) = "COMPLETED"
                  THEN nz(@) + grScore(old.session_id, details, sets) ELSE @]

\* updateSession: the row after the update object has been applied
updateSessionRow(old, sessionData) ==
  [old EXCEPT
     !.scheduled_date = IF sessionData.scheduled_date # ABSENT THEN sessionData.scheduled_date ELSE @,
     !.status = IF updateStatus(sessionData) # "" THEN updateStatus(sessionData) ELSE @,
     !.gr_score = IF updateStatus(sessionData) = "COMPLETED"
                  THEN grScore(old.session_id, details, sets) ELSE @]

\* updateSession: rows matched by .eq('session_id').eq('user_id')
updateSessionMatch(sessionId, userId) ==
  {s \in sessions : s.session_id = sessionId /\ s.user_id = userId}

\* create: the existence check (one session per user and day)
existingSessions(userId, scheduled_date) ==
  {s \in sessions : s.user_id = userId /\ s.scheduled_date = scheduled_date}

\* create: the exercise ids of the request, one session_detail each
exerciseIds(exercises) == {exercises[i].exercise_id : i \in DOMAIN exercises}

\* create: the id given to the detail of exercise e (insertion order of the Map)
RECURSIVE firstIndex(_, _, _)
firstIndex(exercises, e, i) ==
  IF exercises[i].exercise_id = e THEN i ELSE firstIndex(exercises, e, i + 1)
detailIdOf(exercises, e) ==
  seq.details + Cardinality({x \in exerciseIds(exercises) : firstIndex(exercises, x, 1) < firstIndex(exercises, e, 1)})

createDetails(sessionId, exercises) ==
  {[session_detail_id |-> detailIdOf(exercises, e), session_id |-> sessionId,
    exercise_id |-> e, status |-> "UNFINISHED"] : e \in exerciseIds(exercises)}

\* create: one set row per submitted entry, under the detail of its exercise
createSets(exercises) ==
  {LET ex == exercises[i]
       isCardio == normalizeExerciseType(exerciseRow(ex.exercise_id).type) = "cardio"
   IN [set_id |-> seq.sets + i - 1,
       session_detail_id |-> detailIdOf(exercises, ex.exercise_id),
       reps |-> IF isCardio THEN 0 ELSE orZero(ex.actual_reps),
       duration |-> 0,
       weight_kg |-> IF isCardio THEN 0 ELSE orZero(ex.weight_kg),
       status |-> "UNFINISHED"] : i \in DOMAIN exercises}

\* create, from the insert on: session row, details, sets, gr_score if COMPLETED
createInsert(userId, workoutData) ==
  LET sessionId == seq.sessions
      newDetails == createDetails(sessionId, workoutData.exercises)
      newSets == createSets(workoutData.exercises)
      score == IF workoutData.status = "COMPLETED"
               THEN grScore(sessionId, details \cup newDetails, sets \cup newSets)
               ELSE NULL
  IN /\ seq.sessions <= MaxSessionId
     /\ seq.details + Cardinality(newDetails) - 1 <= MaxDetailId
     /\ seq.sets + Cardinality(newSets) - 1 <= MaxSetId
     /\ sessions' = sessions \cup {[session_id |-> sessionId, user_id |-> userId,
                                    scheduled_date |-> workoutData.scheduled_date,
                                    status |-> workoutData.status, gr_score |-> score]}
     /\ details' = details \cup newDetails
     /\ sets' = sets \cup newSets
     /\ seq' = [seq EXCEPT !.sessions = @ + 1,
                           !.details = @ + Cardinality(newDetails),
                           !.sets = @ + Cardinality(newSets)]
     /\ UNCHANGED <<auth, meals, mealDetails>>

\* ------------------------------------------------- /api/workouts/logs
LogsPOST(h, session_detail_id, userId, logData) ==
  /\ idle
  /\ LET op == "POST /api/workouts/logs"
         authUser == getAuthUser(h)
         targetUserId == IF userId # ABSENT THEN userId ELSE authUser
         ids == {session_detail_id}
         isCardio == isCardioBySessionDetailId(session_detail_id)
         row == createLogRow(session_detail_id, logData, isCardio = "yes")
     IN
     IF targetUserId = NoUser THEN
       resp' = Reply(op, authUser, ids, 401, "Unauthorized", {}, 0) /\ UNCHANGED <<auth, tables, inflight, writes>>
     ELSE IF session_detail_id = ABSENT THEN
       resp' = Reply(op, authUser, ids, 400, "session_detail_id is required", {}, 0) /\ UNCHANGED <<auth, tables, inflight, writes>>
     ELSE IF isCardio = "error" THEN
       resp' = Reply(op, authUser, ids, 500, "error.message", {}, 0) /\ UNCHANGED <<auth, tables, inflight, writes>>
     ELSE
       /\ seq.sets <= MaxSetId
       /\ sets' = sets \cup {row}
       /\ seq' = [seq EXCEPT !.sets = @ + 1]
       /\ resp' = Reply(op, authUser, ids, 201, "Log created", {<<"sets", row.set_id>>}, 0)
       /\ served
       /\ UNCHANGED <<auth, sessions, details, meals, mealDetails, inflight>>

LogsPUT(h, log_id, userId, logData) ==
  /\ idle
  /\ LET op == "PUT /api/workouts/logs"
         authUser == getAuthUser(h)
         targetUserId == IF userId # ABSENT THEN userId ELSE authUser
         ids == {log_id}
         isCardio == isCardioByLogId(log_id)
         old == the(setRows(log_id))
     IN
     IF targetUserId = NoUser THEN
       resp' = Reply(op, authUser, ids, 401, "Unauthorized", {}, 0) /\ UNCHANGED <<auth, tables, inflight, writes>>
     ELSE IF log_id = ABSENT THEN
       resp' = Reply(op, authUser, ids, 400, "log_id is required", {}, 0) /\ UNCHANGED <<auth, tables, inflight, writes>>
     ELSE IF isCardio = "error" THEN
       resp' = Reply(op, authUser, ids, 500, "error.message", {}, 0) /\ UNCHANGED <<auth, tables, inflight, writes>>
     ELSE
       /\ sets' = (sets \ {old}) \cup {updateLogRow(old, logData, isCardio = "yes")}
       /\ resp' = Reply(op, authUser, ids, 200, "Log updated", {<<"sets", log_id>>}, 0)
       /\ served
       /\ UNCHANGED <<auth, sessions, details, meals, mealDetails, seq, inflight>>

\* ------------------------------------------------------ /api/workouts
\* POST: the schema has no userId key, so the parsed body never carries one
\* and targetUserId is the token's user
\* the status enum of requestWorkoutSchema
SessionStatuses == {"PENDING", "IN_PROGRESS", "COMPLETED", "UNFINISHED", "MISSED"}

WorkoutsPOST(h, body) ==
  /\ idle
  /\ LET op == "POST /api/workouts"
         user == getAuthUser(h)
         data == [body EXCEPT !.status = IF @ = "" THEN "PENDING" ELSE @]
         targetUserId == user
     IN
     IF user = NoUser THEN
       resp' = Reply(op, user, {}, 401, "Unauthorized", {}, 0) /\ UNCHANGED <<auth, tables, inflight, writes>>
     ELSE IF body.scheduled_date = 0 \/ body.exercises = <<>>
               \/ body.status \notin SessionStatuses \cup {""} THEN
       resp' = Reply(op, user, {}, 400, "Validation error", {}, 0) /\ UNCHANGED <<auth, tables, inflight, writes>>
     ELSE IF existingSessions(targetUserId, data.scheduled_date) # {} THEN
       resp' = Reply(op, user, {}, 409, "Only one workout session is allowed per day.", {}, 0)
         /\ UNCHANGED <<auth, tables, inflight, writes>>
     ELSE
       /\ createInsert(targetUserId, data)
       /\ resp' = Reply(op, user, {seq.sessions}, 201, "Workout session logged successfully",
                        {<<"sessions", seq.sessions>>}, 0)
       /\ served
       /\ UNCHANGED <<auth, inflight>>

WorkoutsPUT(h, session_id, userId, updateData) ==
  /\ idle
  /\ LET op == "PUT /api/workouts"
         user == getAuthUser(h)
         ids == {session_id}
         targetUserId == IF userId # ABSENT /\ userId # 0 THEN userId ELSE user
         matched == single(updateSessionMatch(session_id, targetUserId))
     IN
     IF user = NoUser THEN
       resp' = Reply(op, user, ids, 401, "Unauthorized", {}, 0) /\ UNCHANGED <<auth, tables, inflight, writes>>
     ELSE IF session_id = 0 THEN
       resp' = Reply(op, user, ids, 400, "session_id is required", {}, 0) /\ UNCHANGED <<auth, tables, inflight, writes>>
     ELSE IF matched = {} THEN
       resp' = Reply(op, user, ids, 500, "error.message", {}, 0) /\ UNCHANGED <<auth, tables, inflight, writes>>
     ELSE
       /\ sessions' = (sessions \ matched) \cup {updateSessionRow(the(matched), updateData)}
       /\ resp' = Reply(op, user, ids, 200, "Workout session updated", {<<"sessions", session_id>>}, 0)
       /\ served
       /\ UNCHANGED <<auth, details, sets, meals, mealDetails, seq, inflight>>

\* ------------------------------------------------- /api/meals/{id}
\* MealRepository.delete; fk is what the datastore does with the meal's
\* details ("cascade" deletes them, "restrict" fails the delete): the schema
\* is not part of the repository
MealsDELETE(h, mealId, userIdParam, fk) ==
  /\ idle
  /\ LET op == "DELETE /api/meals/{id}"
         user == getAuthUser(h)
         ids == {mealId}
         userId == IF userIdParam # ABSENT THEN userIdParam ELSE user
         matched == {m \in meals : m.meal_id = mealId /\ m.user_id = userId}
         children == {d \in mealDetails : \E m \in matched : d.meal_id = m.meal_id}
     IN
     IF userIdParam = ABSENT /\ user = NoUser THEN
       resp' = Reply(op, user, ids, 400, "User ID is required", {}, 0) /\ UNCHANGED <<auth, tables, inflight, writes>>
     ELSE IF user = NoUser THEN
       resp' = Reply(op, user, ids, 401, "Unauthorized", {}, 0) /\ UNCHANGED <<auth, tables, inflight, writes>>
     ELSE IF mealId = ABSENT THEN
       resp' = Reply(op, user, ids, 400, "Invalid meal ID", {}, 0) /\ UNCHANGED <<auth, tables, inflight, writes>>
     ELSE IF children # {} /\ fk = "restrict" THEN
       resp' = Reply(op, user, ids, 500, "error.message", {}, 0) /\ UNCHANGED <<auth, tables, inflight, writes>>
     ELSE IF matched = {} THEN
       resp' = Reply(op, user, ids, 200, "Meal deleted", {}, 0) /\ UNCHANGED <<auth, tables, inflight, writes>>
     ELSE
       /\ meals' = meals \ matched
       /\ mealDetails' = mealDetails \ children
       /\ resp' = Reply(op, user, ids, 200, "Meal deleted", {}, 0)
       /\ served
       /\ UNCHANGED <<auth, sessions, details, sets, seq, inflight>>

\* ------------------------------------------------------ /api/ai/sessions
\* POST: the row inserted (gr_score: null)
sessionInsert(userId, scheduled_date, status) ==
  /\ seq.sessions <= MaxSessionId
  /\ sessions' = sessions \cup {[session_id |-> seq.sessions, user_id |-> userId,
                                 scheduled_date |-> scheduled_date, status |-> status,
                                 gr_score |-> NULL]}
  /\ seq' = [seq EXCEPT !.sessions = @ + 1]
  /\ UNCHANGED <<auth, details, sets, meals, mealDetails>>

\* POST: `existingSession && !checkError` of the .single() existence check
sessionConflict(userId, scheduled_date) ==
  single(existingSessions(userId, scheduled_date)) # {}

\* type is supplied by every request here; notes plays no part
SessionsPOST(h, scheduled_date, status) ==
  /\ idle
  /\ LET op == "POST /api/ai/sessions"
         user == validateJWT(h)
     IN
     IF user = NoUser THEN
       resp' = Reply(op, user, {}, 401, "UNAUTHORIZED", {}, 0) /\ UNCHANGED <<auth, tables, inflight, writes>>
     ELSE IF scheduled_date = 0 \/ status = "" THEN
       resp' = Reply(op, user, {}, 400, "VALIDATION_ERROR", {}, 0) /\ UNCHANGED <<auth, tables, inflight, writes>>
     ELSE IF sessionConflict(user, scheduled_date) THEN
       resp' = Reply(op, user, {}, 409, "CONFLICT", {}, 0) /\ UNCHANGED <<auth, tables, inflight, writes>>
     ELSE
       /\ sessionInsert(user, scheduled_date, status)
       /\ resp' = Reply(op, user, {seq.sessions}, 201, "", {<<"sessions", seq.sessions>>}, 0)
       /\ served
       /\ UNCHANGED <<auth, inflight>>

\* PUT, scenario A: the row after the update object has been applied
sessionUpdate(old, body) ==
  [old EXCEPT
     !.scheduled_date = IF body.scheduled_date # ABSENT /\ body.scheduled_date # 0
                        THEN body.scheduled_date ELSE @,
     !.status = IF body.status # "" THEN body.status ELSE @,
     !.gr_score = IF body.gr_score # ABSENT THEN body.gr_score ELSE @]

\* PUT: body.hasIds says whether the body carries an ids array
SessionsPUT(h, body) ==
  /\ idle
  /\ LET user == validateJWT(h)
         batch == body.hasIds /\ body.status # ""
         op == IF batch THEN "PUT /api/ai/sessions {ids}" ELSE "PUT /api/ai/sessions"
         ids == IF batch THEN body.ids ELSE {body.session_id}
         targets == {s \in sessions : s.session_id \in body.ids /\ s.user_id = user}
         matched == single({s \in sessions : s.session_id = body.session_id /\ s.user_id = user})
     IN
     IF user = NoUser THEN
       resp' = Reply(op, user, ids, 401, "UNAUTHORIZED", {}, 0) /\ UNCHANGED <<auth, tables, inflight, writes>>
     ELSE IF batch /\ targets = {} THEN
       resp' = Reply(op, user, ids, 200, "", {}, Cardinality(body.ids)) /\ UNCHANGED <<auth, tables, inflight, writes>>
     ELSE IF batch THEN
       /\ sessions' = (sessions \ targets) \cup {[s EXCEPT !.status = body.status] : s \in targets}
       /\ resp' = Reply(op, user, ids, 200, "", {}, Cardinality(body.ids))
       /\ served
       /\ UNCHANGED <<auth, details, sets, meals, mealDetails, seq, inflight>>
     ELSE IF body.session_id = 0 THEN
       resp' = Reply(op, user, ids, 400, "VALIDATION_ERROR", {}, 0) /\ UNCHANGED <<auth, tables, inflight, writes>>
     ELSE IF matched = {} THEN
       resp' = Reply(op, user, ids, 400, "DATABASE_ERROR", {}, 0) /\ UNCHANGED <<auth, tables, inflight, writes>>
     ELSE
       /\ sessions' = (sessions \ matched) \cup {sessionUpdate(the(matched), body)}
       /\ resp' = Reply(op, user, ids, 200, "", {<<"sessions", body.session_id>>}, 0)
       /\ served
       /\ UNCHANGED <<auth, details, sets, meals, mealDetails, seq, inflight>>

\* DELETE; fk as in MealsDELETE, for the details and sets under a session
SessionsDELETE(h, ids, fk) ==
  /\ idle
  /\ LET op == "DELETE /api/ai/sessions"
         user == validateJWT(h)
         targets == {s \in sessions : s.session_id \in ids /\ s.user_id = user}
         childDetails == {d \in details : \E s \in targets : d.session_id = s.session_id}
         childSets == {s \in sets : \E d \in childDetails : s.session_detail_id = d.session_detail_id}
     IN
     IF user = NoUser THEN
       resp' = Reply(op, user, ids, 401, "UNAUTHORIZED", {}, 0) /\ UNCHANGED <<auth, tables, inflight, writes>>
     ELSE IF ids = {} THEN
       resp' = Reply(op, user, ids, 400, "VALIDATION_ERROR", {}, 0) /\ UNCHANGED <<auth, tables, inflight, writes>>
     ELSE IF childDetails # {} /\ fk = "restrict" THEN
       resp' = Reply(op, user, ids, 400, "DATABASE_ERROR", {}, 0) /\ UNCHANGED <<auth, tables, inflight, writes>>
     ELSE IF targets = {} THEN
       resp' = Reply(op, user, ids, 200, "", {}, Cardinality(ids)) /\ UNCHANGED <<auth, tables, inflight, writes>>
     ELSE
       /\ sessions' = sessions \ targets
       /\ details' = details \ childDetails
       /\ sets' = sets \ childSets
       /\ resp' = Reply(op, user, ids, 200, "", {}, Cardinality(ids))
       /\ served
       /\ UNCHANGED <<auth, meals, mealDetails, seq, inflight>>

\* ---------------------------------------------------------------- inputs
LogDataIn == {[reps |-> 4, weight_kg |-> 2, duration |-> ABSENT, status |-> "COMPLETED"],
              [reps |-> ABSENT, weight_kg |-> ABSENT, duration |-> 30, status |-> ""]}
UserIdsIn == {ABSENT} \cup Users
ExercisesIn == {<<>>,
                <<[exercise_id |-> 1, actual_reps |-> 2, weight_kg |-> 3]>>,
                <<[exercise_id |-> 1, actual_reps |-> 2, weight_kg |-> 3],
                  [exercise_id |-> 1, actual_reps |-> 1, weight_kg |-> 1]>>,
                <<[exercise_id |-> 2, actual_reps |-> 2, weight_kg |-> 0],
                  [exercise_id |-> 1, actual_reps |-> 3, weight_kg |-> ABSENT]>>}
WorkoutBodiesIn == {[scheduled_date |-> d, status |-> st, exercises |-> ex] :
                      d \in {0} \cup Dates, st \in {"", "COMPLETED"}, ex \in ExercisesIn}
SessionDataIn == {[status |-> "COMPLETED", completed |-> "", scheduled_date |-> ABSENT],
                  [status |-> "", completed |-> "false", scheduled_date |-> ABSENT],
                  [status |-> "", completed |-> "true", scheduled_date |-> ABSENT]}
                   \cup {[status |-> "", completed |-> "", scheduled_date |-> d] : d \in Dates}
SessionBodiesIn ==
  {[hasIds |-> TRUE, ids |-> ids, status |-> st, session_id |-> 0, scheduled_date |-> ABSENT, gr_score |-> ABSENT] :
      ids \in batches(1..(MaxSessionId + 1)), st \in {"", "COMPLETED"}}
    \cup {[hasIds |-> FALSE, ids |-> {}, status |-> "COMPLETED", session_id |-> id,
           scheduled_date |-> ABSENT, gr_score |-> g] : id \in SessionIdsIn, g \in {ABSENT, 7}}
    \cup {[hasIds |-> FALSE, ids |-> {}, status |-> "", session_id |-> id,
           scheduled_date |-> d, gr_score |-> ABSENT] : id \in 1..MaxSessionId, d \in Dates}
    \cup {[hasIds |-> FALSE, ids |-> {}, status |-> "IN_PROGRESS", session_id |-> id,
           scheduled_date |-> ABSENT, gr_score |-> g] : id \in 1..MaxSessionId, g \in {ABSENT, 7}}
ForeignKeys == {"cascade", "restrict"}

Request ==
  \E h \in Headers :
    \/ \E id \in {ABSENT} \cup DetailIdsIn, u \in UserIdsIn, logData \in LogDataIn : LogsPOST(h, id, u, logData)
    \/ \E id \in {ABSENT} \cup SetIdsIn, u \in UserIdsIn, logData \in LogDataIn : LogsPUT(h, id, u, logData)
    \/ \E body \in WorkoutBodiesIn : WorkoutsPOST(h, body)
    \/ \E id \in SessionIdsIn, u \in UserIdsIn, data \in SessionDataIn : WorkoutsPUT(h, id, u, data)
    \/ \E id \in {ABSENT} \cup MealIdsIn, u \in UserIdsIn, fk \in ForeignKeys : MealsDELETE(h, id, u, fk)
    \/ \E d \in {0} \cup Dates, st \in {"", "PENDING", "COMPLETED"} : SessionsPOST(h, d, st)
    \/ \E body \in SessionBodiesIn : SessionsPUT(h, body)
    \/ \E ids \in batches(1..(MaxSessionId + 1)), fk \in ForeignKeys : SessionsDELETE(h, ids, fk)

Next == Request \/ ReturnResponse

Spec == Init /\ [][Next]_vars

\* ======================================================================
\* Two create-session requests in flight: each handler awaits the existence
\* query, then awaits the insert, and another request may run in between.
\* inflight holds one record per request: what it asked, where it stands
\* (pc) and, once answered, its status.
\* ======================================================================
Flight(op, user, data, pc, status) ==
  [op |-> op, user |-> user, data |-> data, pc |-> pc, status |-> status]

\* POST /api/workouts up to the result of the existence query of create
WorkoutsPOSTCheck(h, body) ==
  LET op == "POST /api/workouts"
      user == getAuthUser(h)
      data == [body EXCEPT !.status = IF @ = "" THEN "PENDING" ELSE @]
  IN /\ Len(inflight) < MaxInflight
     /\ inflight' = Append(inflight,
          IF user = NoUser THEN Flight(op, user, data, "done", 401)
          ELSE IF body.scheduled_date = 0 \/ body.exercises = <<>> THEN Flight(op, user, data, "done", 400)
          ELSE IF existingSessions(user, data.scheduled_date) # {} THEN Flight(op, user, data, "done", 409)
          ELSE Flight(op, user, data, "checked", 0))
     /\ UNCHANGED <<auth, tables, resp, writes>>

\* POST /api/workouts from the insert of create to the 201
WorkoutsPOSTInsert(p) ==
  /\ p \in DOMAIN inflight
  /\ inflight[p].op = "POST /api/workouts" /\ inflight[p].pc = "checked"
  /\ createInsert(inflight[p].user, inflight[p].data)
  /\ inflight' = [inflight EXCEPT ![p].pc = "done", ![p].status = 201]
  /\ served
  /\ UNCHANGED <<auth, resp>>

\* POST /api/ai/sessions up to the result of the existence query
SessionsPOSTCheck(h, scheduled_date, status) ==
  LET op == "POST /api/ai/sessions"
      user == validateJWT(h)
      data == [scheduled_date |-> scheduled_date, status |-> status]
  IN /\ Len(inflight) < MaxInflight
     /\ inflight' = Append(inflight,
          IF user = NoUser THEN Flight(op, user, data, "done", 401)
          ELSE IF scheduled_date = 0 \/ status = "" THEN Flight(op, user, data, "done", 400)
          ELSE IF sessionConflict(user, scheduled_date) THEN Flight(op, user, data, "done", 409)
          ELSE Flight(op, user, data, "checked", 0))
     /\ UNCHANGED <<auth, tables, resp, writes>>

\* POST /api/ai/sessions from the insert to the 201
SessionsPOSTInsert(p) ==
  /\ p \in DOMAIN inflight
  /\ inflight[p].op = "POST /api/ai/sessions" /\ inflight[p].pc = "checked"
  /\ sessionInsert(inflight[p].user, inflight[p].data.scheduled_date, inflight[p].data.status)
  /\ inflight' = [inflight EXCEPT ![p].pc = "done", ![p].status = 201]
  /\ served
  /\ UNCHANGED <<auth, resp>>

RaceBodiesIn == {[scheduled_date |-> d, status |-> st, exercises |-> ex] :
                   d \in {0} \cup Dates, st \in {"", "COMPLETED"},
                   ex \in {<<>>, <<[exercise_id |-> 1, actual_reps |-> 2, weight_kg |-> 3]>>}}

NextRace ==
  \/ \E h \in Headers, body \in RaceBodiesIn : WorkoutsPOSTCheck(h, body)
  \/ \E p \in 1..MaxInflight : WorkoutsPOSTInsert(p)
  \/ \E h \in Headers, d \in {0} \cup Dates, st \in {"", "PENDING"} : SessionsPOSTCheck(h, d, st)
  \/ \E p \in 1..MaxInflight : SessionsPOSTInsert(p)

SpecRace == Init /\ [][NextRace]_vars

\* ======================================================================
\* Properties of the legacy surface, /api/ai/sessions and the race
\* ======================================================================

\* C2: a request without a valid bearer token (no Authorization header, no
\* "Bearer " prefix, or a token failing verification) is refused and writes
\* nothing to the datastore, on every endpoint, /api/workouts/logs with a
\* userId in the body included.  (The refusal asked for is 401; any status
\* of 400 or above is let through here, so that a violation is a request
\* that was served.)
C2_NoIdentityNoWrite ==
  [][(resp'.op # "none" /\ resp'.user = NoUser)
     => (resp'.status >= 400 /\ tables' = tables)]_vars

\* C3: a request authenticated as B never updates or deletes a session or a
\* meal of another user A through PUT /api/workouts or DELETE /api/meals/{id},
\* whatever userId its body or query carries.
C3_TokenDecidesOwnership ==
  [][\A a \in Users :
       (/\ resp'.op \in {"PUT /api/workouts", "DELETE /api/meals/{id}"}
        /\ resp'.user \notin {NoUser, a})
       => /\ rowsOf(a).sessions' = rowsOf(a).sessions
          /\ rowsOf(a).meals' = rowsOf(a).meals]_vars

\* C4: of two concurrent create-session requests for the same user and date,
\* both answered with a creation outcome, at most one is answered 201 (the
\* other 409) and at most one row exists for that user and date.
C4_OneCreatePerDay ==
  \A p, q \in DOMAIN inflight :
    (/\ p # q
     /\ inflight[p].pc = "done" /\ inflight[q].pc = "done"
     /\ inflight[p].status \in {201, 409} /\ inflight[q].status \in {201, 409}
     /\ inflight[p].user = inflight[q].user
     /\ inflight[p].data.scheduled_date = inflight[q].data.scheduled_date)
    => /\ ~(inflight[p].status = 201 /\ inflight[q].status = 201)
       /\ Cardinality(existingSessions(inflight[p].user, inflight[p].data.scheduled_date)) <= 1

\* C5: a user never has two sessions on the same scheduled_date.
C5_OneSessionPerUserPerDay ==
  \A s1, s2 \in sessions :
    (s1.user_id = s2.user_id /\ s1.scheduled_date = s2.scheduled_date)
      => s1.session_id = s2.session_id

\* C7: a batch status update or batch delete on /api/ai/sessions listing a
\* session of another user is rejected as a whole and changes no session.
C7_SessionBatchAllOrNothing ==
  [][(/\ resp'.op \in {"PUT /api/ai/sessions {ids}", "DELETE /api/ai/sessions"}
      /\ resp'.user # NoUser
      /\ \E id \in resp'.ids : sessionOwners(id) \ {resp'.user} # {})
     => (resp'.status >= 400 /\ sessions' = sessions)]_vars

\* C10: when an update (PUT /api/workouts, PUT /api/ai/sessions single or
\* batch) turns a session's status into COMPLETED, the gr_score stored with
\* it is the score computed from the session's current details and sets.
C10_CompletedCarriesScore ==
  [][\A s \in sessions' :
       (/\ resp'.op \in {"PUT /api/workouts", "PUT /api/ai/sessions", "PUT /api/ai/sessions {ids}"}
        /\ resp'.status = 200
        /\ s.session_id \in resp'.ids
        /\ s.status = "COMPLETED"
        /\ \E o \in sessions : o.session_id = s.session_id /\ o.status # "COMPLETED")
       => s.gr_score = grScore(s.session_id, details', sets')]_vars

SessionUpdateOps == {"PUT /api/workouts", "PUT /api/ai/sessions", "PUT /api/ai/sessions {ids}"}

\* C11: a session update after which the session's status is not COMPLETED
\* (so the update set another status, or none) leaves the session's stored
\* gr_score as it was.
C11_OtherUpdatesKeepScore ==
  [][\A o \in sessions, s \in sessions' :
       (/\ resp'.op \in SessionUpdateOps
        /\ o.session_id = s.session_id
        /\ s.status # "COMPLETED")
       => s.gr_score = o.gr_score]_vars

\* the score as the specification words it: over every set of every detail
\* of the session, reps * weight_kg * difficulty_factor (1.0 when absent,
\* reps and weight 0 when absent), summed in tenths and rounded
RECURSIVE sumContributions(_, _)
sumContributions(ss, ds) ==
  IF ss = {} THEN 0
  ELSE LET s == CHOOSE x \in ss : TRUE
           d == CHOOSE x \in ds : x.session_detail_id = s.session_detail_id
           f == exerciseRow(d.exercise_id).difficulty_factor
       IN (IF s.reps = NULL THEN 0 ELSE s.reps) * (IF s.weight_kg = NULL THEN 0 ELSE s.weight_kg)
            * (IF f = NULL THEN 10 ELSE f)
            + sumContributions(ss \ {s}, ds)
specifiedScore(sessionId, ds, ss) ==
  LET mine == {d \in ds : d.session_id = sessionId}
      logs == {s \in ss : \E d \in mine : s.session_detail_id = d.session_detail_id}
      total == sumContributions(logs, mine)
  IN (total \div 10) + (IF total % 10 >= 5 THEN 1 ELSE 0)

C13_CompletedTwice ==
  [][\A o \in sessions, s \in sessions' :
       (/\ resp'.op = "PUT /api/workouts" /\ resp'.status = 200
        /\ o.session_id = s.session_id /\ s.session_id \in resp'.ids
        /\ o.status = "COMPLETED" /\ s.status = "COMPLETED"
        /\ o.gr_score = grScore(o.session_id, details, sets)
        /\ o.scheduled_date = s.scheduled_date)
       => s = o]_vars

\* session 1 was completed by two updates in a row: nothing but its status
\* and score differs from the initial tables
C13_Witness ==
  /\ resp.op = "PUT /api/workouts" /\ resp.status = 200 /\ resp.ids = {1}
  /\ writes = 2
  /\ sessions = {[session_id |-> 1, user_id |-> 1, scheduled_date |-> 1, status |-> "COMPLETED", gr_score |-> 23],
                 [session_id |-> 2, user_id |-> 2, scheduled_date |-> 1, status |-> "PENDING", gr_score |-> NULL]}
  /\ Cardinality(sets) = 2 /\ Cardinality(details) = 2 /\ Cardinality(meals) = 2
  /\ \A x \in sets : x.reps = 5 /\ x.weight_kg = 3 /\ x.status = "UNFINISHED"

\* whether the exercise of the detail a set hangs under is of type cardio
underCardio(s, ds) ==
  \E d \in ds : /\ d.session_detail_id = s.session_detail_id
                /\ normalizeExerciseType(exerciseRow(d.exercise_id).type) = "cardio"

\* C14: every set row a step creates is stored with reps = 0 and weight_kg = 0
\* when the exercise of its detail is cardio, and with duration = 0 when it
\* is not.
C14_CreatedSetsFollowType ==
  [][\A s \in sets' :
       (\A o \in sets : o.set_id # s.set_id)
       => IF underCardio(s, details') THEN s.reps = 0 /\ s.weight_kg = 0
          ELSE s.duration = 0]_vars

\* C15: an update of an existing set (PUT /api/workouts/logs, PUT
\* /api/ai/sets) leaves reps and weight_kg unchanged when the exercise of
\* its detail is cardio, and duration unchanged when it is not.
C15_UpdatedSetsFollowType ==
  [][\A o \in sets, s \in sets' :
       (/\ resp'.op \in {"PUT /api/workouts/logs", "PUT /api/ai/sets"}
        /\ o.set_id = s.set_id)
       => IF underCardio(o, details) THEN s.reps = o.reps /\ s.weight_kg = o.weight_kg
          ELSE s.duration = o.duration]_vars

\* C16: after a step creates or updates a set, the status stored with the
\* set's parent detail is COMPLETED if every set of the detail is COMPLETED,
\* and UNFINISHED otherwise.
C16_DetailStatusFollowsSets ==
  [][\A s \in sets' \ sets : \A d \in details' :
       d.session_detail_id = s.session_detail_id
       => d.status = IF \A x \in sets' : x.session_detail_id = d.session_detail_id
                                          => x.status = "COMPLETED"
                     THEN "COMPLETED" ELSE "UNFINISHED"]_vars

\* C17: no session has two session-detail rows with the same exercise_id.
C17_OneDetailPerExercise ==
  \A d1, d2 \in details :
    (d1.session_id = d2.session_id /\ d1.exercise_id = d2.exercise_id)
      => d1.session_detail_id = d2.session_detail_id

\* ======================================================================
\* /api/workouts/{id}/session-details, the DELETE taken query by query
\* ======================================================================

\* POST: the loop over the submitted exercises; each iteration sees the rows
\* the iterations before it inserted.  acc = [details, sets, seq, added].
\* The insert of a set names no duration: the column takes its default.
RECURSIVE addExercises(_, _, _, _)
addExercises(sessionId, exercises, durationDefault, acc) ==
  IF exercises = <<>> THEN acc
  ELSE LET ex == Head(exercises)
           existingDetail == single({d \in acc.details : /\ d.session_id = sessionId
                                                         /\ d.exercise_id = ex.exercise_id})
           detail == [session_detail_id |-> acc.seq.details, session_id |-> sessionId,
                      exercise_id |-> ex.exercise_id, status |-> "UNFINISHED"]
           setInserts == {[set_id |-> acc.seq.sets + i - 1,
                           session_detail_id |-> detail.session_detail_id,
                           reps |-> ex.planned_reps, weight_kg |-> 0,
                           duration |-> durationDefault,
                           status |-> "UNFINISHED"] : i \in 1..ex.planned_sets}
       IN IF existingDetail # {}
          THEN addExercises(sessionId, Tail(exercises), durationDefault, acc)
          ELSE addExercises(sessionId, Tail(exercises), durationDefault,
                 [details |-> acc.details \cup {detail},
                  sets |-> acc.sets \cup setInserts,
                  seq |-> [acc.seq EXCEPT !.details = @ + 1, !.sets = @ + ex.planned_sets],
                  added |-> acc.added \cup {detail.session_detail_id}])

DetailsPOST(h, id, exercises, durationDefault) ==
  /\ idle
  /\ LET op == "POST /api/workouts/{id}/session-details"
         user == getAuthUser(h)
         ids == {id}
         session == single({s \in sessions : s.session_id = id /\ s.user_id = user})
         result == addExercises(id, exercises, durationDefault,
                                [details |-> details, sets |-> sets, seq |-> seq, added |-> {}])
     IN
     IF user = NoUser THEN
       resp' = Reply(op, user, ids, 401, "Unauthorized", {}, 0) /\ UNCHANGED <<auth, tables, inflight, writes>>
     ELSE IF id = ABSENT THEN
       resp' = Reply(op, user, ids, 400, "Invalid session ID", {}, 0) /\ UNCHANGED <<auth, tables, inflight, writes>>
     ELSE IF session = {} THEN
       resp' = Reply(op, user, ids, 404, "Workout session not found", {}, 0) /\ UNCHANGED <<auth, tables, inflight, writes>>
     ELSE IF exercises = <<>> THEN
       resp' = Reply(op, user, ids, 400, "exercises array is required", {}, 0) /\ UNCHANGED <<auth, tables, inflight, writes>>
     ELSE IF \E i \in DOMAIN exercises : \/ exercises[i].exercise_id = 0
                                         \/ exercises[i].planned_sets = 0
                                         \/ exercises[i].planned_reps = 0 THEN
       resp' = Reply(op, user, ids, 400, "Each exercise must have exercise_id, planned_sets, and planned_reps", {}, 0)
       /\ UNCHANGED <<auth, tables, inflight, writes>>
     ELSE
       /\ result.seq.details - 1 <= MaxDetailId
       /\ result.seq.sets - 1 <= MaxSetId
       /\ details' = result.details
       /\ sets' = result.sets
       /\ seq' = result.seq
       /\ resp' = Reply(op, user, ids, 201, "", {<<"details", d>> : d \in result.added},
                        Cardinality(result.added))
       /\ served
       /\ UNCHANGED <<auth, sessions, meals, mealDetails, inflight>>

\* DELETE up to the last check before the first delete: a refusal is
\* answered at once, a request that passes every check is in flight
DetailDELETEVerify(h, id, session_detail_id) ==
  /\ idle
  /\ LET op == "DELETE /api/workouts/{id}/session-details"
         user == getAuthUser(h)
         ids == {session_detail_id}
         data == [session_id |-> id, session_detail_id |-> session_detail_id, setsError |-> FALSE]
         sessionDetail == single(detailRows(session_detail_id))
         session == IF sessionDetail = {} THEN {} ELSE sessionRows(the(sessionDetail).session_id)
     IN
     IF user = NoUser THEN
       resp' = Reply(op, user, ids, 401, "Unauthorized", {}, 0) /\ UNCHANGED <<auth, tables, inflight, writes>>
     ELSE IF id = ABSENT THEN
       resp' = Reply(op, user, ids, 400, "Invalid session ID", {}, 0) /\ UNCHANGED <<auth, tables, inflight, writes>>
     ELSE IF session_detail_id = 0 THEN
       resp' = Reply(op, user, ids, 400, "session_detail_id is required", {}, 0) /\ UNCHANGED <<auth, tables, inflight, writes>>
     ELSE IF sessionDetail = {} THEN
       resp' = Reply(op, user, ids, 404, "Session detail not found", {}, 0) /\ UNCHANGED <<auth, tables, inflight, writes>>
     ELSE IF session = {} THEN
       resp' = Reply(op, user, ids, 500, "error.message", {}, 0) /\ UNCHANGED <<auth, tables, inflight, writes>>
     ELSE IF the(session).user_id # user THEN
       resp' = Reply(op, user, ids, 403, "Unauthorized", {}, 0) /\ UNCHANGED <<auth, tables, inflight, writes>>
     ELSE IF the(sessionDetail).session_id # id THEN
       resp' = Reply(op, user, ids, 400, "Session detail does not belong to this session", {}, 0)
       /\ UNCHANGED <<auth, tables, inflight, writes>>
     ELSE
       /\ Len(inflight) < MaxInflight
       /\ inflight' = Append(inflight, Flight(op, user, data, "verified", 0))
       /\ UNCHANGED <<auth, tables, resp, writes>>

\* where DELETE goes after the delete of the sets: to the catch block and the
\* 500 when the datastore reported an error, on to the detail otherwise
afterSetsDelete_ignoreError(setsError) ==
  "setsDeleted"

afterSetsDelete(setsError) ==
  IF setsError THEN "done" ELSE "setsDeleted"

\* DELETE: the delete of the sets of the detail, which the datastore
\* carries out or refuses
DetailDELETESets(p, setsError) ==
  /\ p \in DOMAIN inflight
  /\ inflight[p].op = "DELETE /api/workouts/{id}/session-details" /\ inflight[p].pc = "verified"
  /\ sets' = IF setsError THEN sets
             ELSE {s \in sets : s.session_detail_id # inflight[p].data.session_detail_id}
  /\ inflight' = [inflight EXCEPT ![p].pc = afterSetsDelete(setsError),
                                  ![p].status = IF setsError THEN 500 ELSE 0,
                                  ![p].data.setsError = setsError]
  /\ UNCHANGED <<auth, sessions, details, meals, mealDetails, seq, resp, writes>>

\* DELETE: the delete of the detail row.  Sets inserted under the detail
\* since the step before are removed with it or make the datastore refuse,
\* as the foreign key is declared.
DetailDELETEDetail(p, fk, detailError) ==
  /\ p \in DOMAIN inflight
  /\ inflight[p].op = "DELETE /api/workouts/{id}/session-details" /\ inflight[p].pc = "setsDeleted"
  /\ LET id == inflight[p].data.session_detail_id
         children == {s \in sets : s.session_detail_id = id}
     IN IF detailError \/ (children # {} /\ fk = "restrict") THEN
          /\ inflight' = [inflight EXCEPT ![p].pc = "done", ![p].status = 500]
          /\ UNCHANGED <<auth, tables, resp, writes>>
        ELSE
          /\ details' = details \ detailRows(id)
          /\ sets' = sets \ children
          /\ inflight' = [inflight EXCEPT ![p].pc = "done", ![p].status = 200]
          /\ UNCHANGED <<auth, sessions, meals, mealDetails, seq, resp, writes>>

PlannedIn == {<<>>,
              <<[exercise_id |-> 1, planned_sets |-> 1, planned_reps |-> 5]>>,
              <<[exercise_id |-> 2, planned_sets |-> 1, planned_reps |-> 0]>>,
              <<[exercise_id |-> 2, planned_sets |-> 1, planned_reps |-> 5],
                [exercise_id |-> 2, planned_sets |-> 1, planned_reps |-> 3]>>}

DetailSessionIdsIn == {ABSENT} \cup (1..MaxSessionId)
DetailDetailIdsIn == 0..MaxDetailId

NextDetail ==
  \/ \E h \in Headers, id \in DetailSessionIdsIn, sd \in DetailDetailIdsIn : DetailDELETEVerify(h, id, sd)
  \/ \E p \in 1..MaxInflight, setsError \in BOOLEAN : DetailDELETESets(p, setsError)
  \/ \E p \in 1..MaxInflight, fk \in ForeignKeys, detailError \in BOOLEAN : DetailDELETEDetail(p, fk, detailError)
  \/ \E h \in Headers, id \in DetailSessionIdsIn, ex \in PlannedIn, dflt \in {0, NULL} : DetailsPOST(h, id, ex, dflt)
  \/ \E h \in Headers, sd \in DetailDetailIdsIn, body \in SetBodiesIn : SetsPOST(h, sd, body)
  \/ ReturnResponse

SpecDetail == Init /\ [][NextDetail]_vars

\* C18: DELETE /api/workouts/{id}/session-details deletes the sets of the
\* detail before the detail row: a step that removes a detail row is the
\* last step of a DELETE whose delete of the sets was carried out without
\* error, and after every step each set row references a detail row that
\* exists (so a DELETE whose delete of the sets failed never removes the
\* detail).
C18_SetsBeforeDetail ==
  [][/\ \A s \in sets' : detailRows(s.session_detail_id)' # {}
     /\ \A d \in details :
          detailRows(d.session_detail_id)' = {}
          => \E p \in DOMAIN inflight :
               /\ inflight[p].op = "DELETE /api/workouts/{id}/session-details"
               /\ inflight[p].data.session_detail_id = d.session_detail_id
               /\ inflight[p].pc = "setsDeleted"
               /\ ~inflight[p].data.setsError
               /\ inflight'[p].pc = "done"]_vars

\* a DELETE refused by the datastore at the sets has left its detail in
\* place, and another DELETE has removed its detail and the sets under it
C18_Witness ==
  \E p, q \in DOMAIN inflight :
    /\ inflight[p].pc = "done" /\ inflight[p].status = 500 /\ inflight[p].data.setsError
    /\ detailRows(inflight[p].data.session_detail_id) # {}
    /\ inflight[q].pc = "done" /\ inflight[q].status = 200
    /\ detailRows(inflight[q].data.session_detail_id) = {}
    /\ \A s \in sets : s.session_detail_id # inflight[q].data.session_detail_id

\* ======================================================================
\* /api/auth/verify and /api/auth/cleanup-unverified, query by query
\* ======================================================================

\* UserRepository.findByVerificationToken / findByVerificationCode:
\* .single(), whose "no rows or several" error (PGRST116) gives null
findByVerificationToken(token) == single({u \in users : u.verification_token = token})
findByVerificationCode(code) == single({u \in users : u.verification_code = code})

\* `!user.verification_expires_at || new Date(user.verification_expires_at) < new Date()`
verificationExpired(u, t) ==
  u.verification_expires_at = NULL \/ u.verification_expires_at < t

\* UserRepository.verifyUser: the rows after the update .eq('user_id', userId)
verifyUser(rows, userId) ==
  {IF u.user_id = userId
   THEN [u EXCEPT !.verified = TRUE, !.verification_code = NULL,
                  !.verification_token = NULL, !.verification_expires_at = NULL]
   ELSE u : u \in rows}

\* UserRepository.deleteById: the rows after the delete .eq('user_id', userId)
deleteById(rows, userId) == {u \in rows : u.user_id # userId}

\* UserRepository.deleteUnverifiedExpired: the rows the delete
\* .eq('verified', false).lt('verification_expires_at', nowIso) removes; a
\* null expiry is less than nothing
\* (broken variant: .lte)
deleteUnverifiedExpired_lte(rows, nowIso) ==
  {u \in rows : /\ u.verified = FALSE
                /\ u.verification_expires_at # NULL
                /\ u.verification_expires_at <= nowIso}

deleteUnverifiedExpired(rows, nowIso) ==
  {u \in rows : /\ u.verified = FALSE
                /\ u.verification_expires_at # NULL
                /\ u.verification_expires_at < nowIso}

\* what a verify or cleanup request in flight carries: the credential it
\* presented, the user its lookup found, the instant its clock read, and at
\* its end the message and the deleted count of its response
AuthData(method, code, token, user_id, at) ==
  [method |-> method, code |-> code, token |-> token, user_id |-> user_id,
   at |-> at, message |-> "", deleted |-> 0]

\* POST and GET /api/auth/verify from the request to the expiry check; the
\* lookup and the clock read that follows it are one step.  A request that
\* ends here is answered at once, one that goes on to write is in flight.
VerifyFind(method, code, token) ==
  /\ idle
  /\ LET op == method \o " /api/auth/verify"
         ids == {code, token}
         user == IF method = "GET" THEN findByVerificationToken(token)
                 ELSE IF token # ABSENT THEN findByVerificationToken(token)
                 ELSE findByVerificationCode(code)
     IN
     IF method = "GET" /\ token = ABSENT THEN
       resp' = Reply(op, NoUser, ids, 400, "Missing verification token", {}, 0)
       /\ UNCHANGED <<auth, tables, inflight, writes>>
     ELSE IF method = "POST" /\ code = ABSENT /\ token = ABSENT THEN
       resp' = Reply(op, NoUser, ids, 400, "Provide verification code or token", {}, 0)
       /\ UNCHANGED <<auth, tables, inflight, writes>>
     ELSE IF user = {} THEN
       resp' = Reply(op, NoUser, ids, 400,
                     IF method = "GET" THEN "Invalid verification token"
                     ELSE "Invalid verification code or token", {}, 0)
       /\ UNCHANGED <<auth, tables, inflight, writes>>
     ELSE IF the(user).verified THEN
       resp' = Reply(op, the(user).user_id, ids, 200, "Email already verified", {}, 0)
       /\ UNCHANGED <<auth, tables, inflight, writes>>
     ELSE
       /\ Len(inflight) < MaxAuthFlights
       /\ inflight' = Append(inflight,
            Flight(op, the(user).user_id, AuthData(method, code, token, the(user).user_id, now),
                   IF verificationExpired(the(user), now) THEN "expired" ELSE "valid", 0))
       /\ UNCHANGED <<auth, tables, resp, writes>>

\* verify from the write to the response: deleteById and the 400 after an
\* expiry, verifyUser and the 200 otherwise
VerifyWrite(p) ==
  /\ p \in DOMAIN inflight
  /\ inflight[p].op \in {"POST /api/auth/verify", "GET /api/auth/verify"}
  /\ inflight[p].pc \in {"expired", "valid"}
  /\ IF inflight[p].pc = "expired"
     THEN /\ users' = deleteById(users, inflight[p].data.user_id)
          /\ inflight' = [inflight EXCEPT ![p].pc = "done", ![p].status = 400,
                            ![p].data.message = "Verification expired. Please sign up again."]
     ELSE /\ users' = verifyUser(users, inflight[p].data.user_id)
          /\ inflight' = [inflight EXCEPT ![p].pc = "done", ![p].status = 200,
                            ![p].data.message = "Email verified successfully"]
  /\ UNCHANGED <<now, goals, tables, resp, writes>>

\* POST /api/auth/cleanup-unverified: `nowIso = new Date().toISOString()`
SweepStart ==
  /\ Len(inflight) < MaxAuthFlights
  /\ inflight' = Append(inflight,
       Flight("POST /api/auth/cleanup-unverified", NoUser,
              AuthData("POST", ABSENT, ABSENT, NoUser, now), "started", 0))
  /\ UNCHANGED <<auth, tables, resp, writes>>

\* cleanup: the one delete statement and the 200 with its count
SweepDelete(p) ==
  /\ p \in DOMAIN inflight
  /\ inflight[p].op = "POST /api/auth/cleanup-unverified" /\ inflight[p].pc = "started"
  /\ LET deleted == deleteUnverifiedExpired(users, inflight[p].data.at)
     IN /\ users' = users \ deleted
        /\ inflight' = [inflight EXCEPT ![p].pc = "done", ![p].status = 200,
                          ![p].data.message = "Cleanup completed",
                          ![p].data.deleted = Cardinality(deleted)]
  /\ UNCHANGED <<now, goals, tables, resp, writes>>

\* time passes
Tick ==
  /\ now < MaxTime
  /\ now' = now + 1
  /\ UNCHANGED <<users, goals, tables, resp, inflight, writes>>

\* what a verify request presents: nothing, the code or token of user 3, or
\* one no user holds; POST with the code alone or the token alone, GET with
\* the token
CredentialsIn == {ABSENT, 1, 9}
VerifyRequestsIn ==
  {<<"POST", c, ABSENT>> : c \in CredentialsIn}
    \cup {<<"POST", ABSENT, k>> : k \in CredentialsIn}
    \cup {<<"GET", ABSENT, k>> : k \in CredentialsIn}

NextAuth ==
  \/ \E r \in VerifyRequestsIn : VerifyFind(r[1], r[2], r[3])
  \/ \E p \in 1..MaxAuthFlights : VerifyWrite(p)
  \/ SweepStart
  \/ \E p \in 1..MaxAuthFlights : SweepDelete(p)
  \/ Tick
  \/ ReturnResponse

SpecAuth == Init /\ [][NextAuth]_vars

VerifyOps == {"POST /api/auth/verify", "GET /api/auth/verify"}

\* C19: a verify request that presented the code or token of an unverified
\* user after the user's verification_expires_at ends with the user row
\* deleted (so never verified) and the message 'Verification expired. Please
\* sign up again.'; one that presented it before the expiry ends with the
\* user verified and its code, token and expiry cleared.
C19_ExpiredOrVerified ==
  [][\A p \in DOMAIN inflight :
       (/\ inflight[p].op \in VerifyOps
        /\ inflight[p].pc # "done"
        /\ inflight'[p].pc = "done")
       => LET id == inflight[p].data.user_id
              row == {u \in users' : u.user_id = id}
          IN IF inflight[p].pc = "expired"
             THEN /\ row = {}
                  /\ inflight'[p].status = 400
                  /\ inflight'[p].data.message = "Verification expired. Please sign up again."
             ELSE /\ inflight'[p].status = 200
                  /\ row # {}
                  /\ \A u \in row : /\ u.verified
                                    /\ u.verification_code = NULL
                                    /\ u.verification_token = NULL
                                    /\ u.verification_expires_at = NULL]_vars

\* a verify or cleanup request run alone, from its lookup to its write, at
\* the instant its clock read
runAlone(rows, f) ==
  IF f.op = "POST /api/auth/cleanup-unverified"
  THEN rows \ {u \in rows : /\ ~u.verified
                            /\ u.verification_expires_at # NULL
                            /\ u.verification_expires_at < f.data.at}
  ELSE LET found == {u \in rows : IF f.data.method = "POST" /\ f.data.token = ABSENT
                                  THEN u.verification_code = f.data.code
                                  ELSE u.verification_token = f.data.token}
       IN IF Cardinality(found) # 1 THEN rows
          ELSE LET u == the(found)
               IN IF u.verified THEN rows
                  ELSE IF u.verification_expires_at = NULL \/ u.verification_expires_at < f.data.at
                  THEN rows \ {u}
                  ELSE (rows \ {u}) \cup {[u EXCEPT !.verified = TRUE, !.verification_code = NULL,
                                                   !.verification_token = NULL,
                                                   !.verification_expires_at = NULL]}

\* the users tables that running the requests `todo` one after the other,
\* in any order, can leave
RECURSIVE oneAfterTheOther(_, _)
oneAfterTheOther(rows, todo) ==
  IF todo = {} THEN {rows}
  ELSE UNION {oneAfterTheOther(runAlone(rows, inflight[p]), todo \ {p}) : p \in todo}

\* C20: the delete of a cleanup sweep removes exactly the users that are
\* unverified and whose verification_expires_at is earlier than the sweep
\* time, so never a verified user; the same sweep run again on the table it
\* left deletes nothing; and once sweeps and verify requests that ran
\* concurrently have all ended, the users left are those that running the
\* same requests one after the other leaves.
C20_SweepExactIdempotentConcurrent ==
  /\ [][\A p \in DOMAIN inflight :
          (/\ inflight[p].op = "POST /api/auth/cleanup-unverified"
           /\ inflight[p].pc = "started"
           /\ inflight'[p].pc = "done")
          => LET t == inflight[p].data.at
                 gone == {u \in users : /\ ~u.verified
                                        /\ u.verification_expires_at # NULL
                                        /\ u.verification_expires_at < t}
             IN /\ users' = users \ gone
                /\ inflight'[p].data.deleted = Cardinality(gone)
                /\ \A u \in users : u.verified => u \in users'
                /\ deleteUnverifiedExpired(users', t) = {}]_vars
  /\ []((\A p \in DOMAIN inflight : inflight[p].pc = "done")
          => users \in oneAfterTheOther(InitUsers, DOMAIN inflight))

\* two sweeps and a verify request were in flight together and have ended:
\* one sweep deleted an expired signup, the other found nothing to delete,
\* and the verify request verified the other signup
C20_Witness ==
  \E p, q, r \in DOMAIN inflight :
    /\ inflight[p].op = "POST /api/auth/cleanup-unverified" /\ inflight[p].pc = "done"
    /\ inflight[q].op = "POST /api/auth/cleanup-unverified" /\ inflight[q].pc = "done"
    /\ inflight[p].data.deleted = 1 /\ inflight[q].data.deleted = 0
    /\ inflight[r].op \in VerifyOps /\ inflight[r].pc = "done" /\ inflight[r].status = 200
    /\ \E u \in users : u.user_id = inflight[r].data.user_id /\ u.verified
    /\ Cardinality(users) = 3

\* ======================================================================
\* WorkoutRepository.create and updateSession with a datastore call that
\* returns an error
\* ======================================================================

\* the datastore call of a request that returns an error: <<call, k>>, k the
\* position of the exercise (in the order of the Map) whose insert it is
CreateFaultsIn ==
  {<<c, 0>> : c \in {"none", "existing", "session", "types", "scoreRead", "scoreWrite"}}
    \cup {<<c, k>> : c \in {"detail", "sets"}, k \in 1..2}
UpdateFaultsIn == {<<c, 0>> : c \in {"none", "scoreRead", "update"}}

\* create: the position of exercise e in the order of the Map
mapPosition(exercises, e) == detailIdOf(exercises, e) - seq.details + 1

\* create: whether the call is one the request makes
createCalls(workoutData, fault) ==
  CASE fault[1] \in {"none", "existing"} -> TRUE
    [] fault[1] \in {"session", "types"} -> TRUE
    [] fault[1] \in {"detail", "sets"} -> fault[2] <= Cardinality(exerciseIds(workoutData.exercises))
    [] OTHER -> workoutData.status = "COMPLETED"

\* (variant with a rollback: nothing inserted before the failure is kept)
detailsBefore_rollback(sessionId, exercises, fault) == {}

\* create: the details inserted when the call `fault` throws (all of them
\* when the throw comes later or never)
detailsBefore(sessionId, exercises, fault) ==
  {d \in createDetails(sessionId, exercises) :
     CASE fault[1] = "types" -> FALSE
       [] fault[1] = "detail" -> mapPosition(exercises, d.exercise_id) < fault[2]
       [] fault[1] = "sets" -> mapPosition(exercises, d.exercise_id) <= fault[2]
       [] OTHER -> TRUE}

\* create: the sets inserted when the call `fault` throws
setsBefore(exercises, fault) ==
  {s \in createSets(exercises) :
     LET e == CHOOSE x \in exerciseIds(exercises) : detailIdOf(exercises, x) = s.session_detail_id
     IN CASE fault[1] = "types" -> FALSE
          [] fault[1] \in {"detail", "sets"} -> mapPosition(exercises, e) < fault[2]
          [] OTHER -> TRUE}

\* create: what the caller gets, 201 after `return session` included
createStatus(fault) ==
  IF fault[1] \in {"none", "scoreRead", "scoreWrite"} THEN 201 ELSE 500

\* create from the insert of the session on, the call `fault` returning an
\* error: an ignored error of the read for gr_score leaves sessionDetails
\* undefined and the total 0; an error of the write of gr_score falls
\* through to `return session`
createWithFault(userId, workoutData, fault) ==
  LET sessionId == seq.sessions
      exercises == workoutData.exercises
      newDetails == detailsBefore(sessionId, exercises, fault)
      newSets == setsBefore(exercises, fault)
      score == IF workoutData.status # "COMPLETED" \/ createStatus(fault) = 500 THEN NULL
               ELSE IF fault[1] = "scoreWrite" THEN NULL
               ELSE IF fault[1] = "scoreRead" THEN 0
               ELSE grScore(sessionId, details \cup newDetails, sets \cup newSets)
  IN /\ seq.sessions <= MaxSessionId
     /\ seq.details + Cardinality(exerciseIds(exercises)) - 1 <= MaxDetailId
     /\ seq.sets + Len(exercises) - 1 <= MaxSetId
     /\ sessions' = sessions \cup {[session_id |-> sessionId, user_id |-> userId,
                                    scheduled_date |-> workoutData.scheduled_date,
                                    status |-> workoutData.status, gr_score |-> score]}
     /\ details' = details \cup newDetails
     /\ sets' = sets \cup newSets
     /\ seq' = [seq EXCEPT !.sessions = @ + 1,
                           !.details = @ + Cardinality(exerciseIds(exercises)),
                           !.sets = @ + Len(exercises)]
     /\ UNCHANGED <<meals, mealDetails>>

\* POST /api/workouts, one datastore call of create returning an error
WorkoutsPOSTFault(h, body, fault) ==
  LET op == "POST /api/workouts"
      user == getAuthUser(h)
      data == [body EXCEPT !.status = IF @ = "" THEN "PENDING" ELSE @]
      req == [body |-> data, fault |-> fault]
      refused == IF user = NoUser THEN 401
                 ELSE IF body.scheduled_date = 0 \/ body.exercises = <<>> THEN 400
                 ELSE IF fault[1] = "existing" THEN 500
                 ELSE IF existingSessions(user, data.scheduled_date) # {} THEN 409
                 ELSE IF fault[1] = "session" THEN 500
                 ELSE 0
  IN /\ Len(inflight) < MaxInflight
     /\ IF fault[1] = "none" THEN TRUE
        ELSE IF user = NoUser \/ body.scheduled_date = 0 \/ body.exercises = <<>> THEN FALSE
        ELSE IF fault[1] = "existing" THEN TRUE
        ELSE existingSessions(user, data.scheduled_date) = {} /\ createCalls(data, fault)
     /\ IF refused # 0
        THEN /\ inflight' = Append(inflight, Flight(op, user, req, "done", refused))
             /\ UNCHANGED <<auth, tables, resp, writes>>
        ELSE /\ createWithFault(user, data, fault)
             /\ inflight' = Append(inflight, Flight(op, user, req, "done", createStatus(fault)))
             /\ UNCHANGED <<auth, resp, writes>>

\* PUT /api/workouts, one datastore call of updateSession returning an
\* error: the read for gr_score, whose error is not looked at, or the update
WorkoutsPUTFault(h, session_id, updateData, fault) ==
  LET op == "PUT /api/workouts"
      user == getAuthUser(h)
      req == [body |-> updateData, session_id |-> session_id, fault |-> fault]
      matched == single(updateSessionMatch(session_id, user))
      row == updateSessionRow(the(matched), updateData)
  IN /\ Len(inflight) < MaxInflight
     /\ IF fault[1] = "none" THEN TRUE
        ELSE IF user = NoUser \/ session_id = 0 THEN FALSE
        ELSE IF fault[1] = "scoreRead" THEN updateStatus(updateData) = "COMPLETED"
        ELSE TRUE
     /\ IF user = NoUser THEN
          inflight' = Append(inflight, Flight(op, user, req, "done", 401))
          /\ UNCHANGED <<auth, tables, resp, writes>>
        ELSE IF session_id = 0 THEN
          inflight' = Append(inflight, Flight(op, user, req, "done", 400))
          /\ UNCHANGED <<auth, tables, resp, writes>>
        ELSE IF fault[1] = "update" \/ matched = {} THEN
          inflight' = Append(inflight, Flight(op, user, req, "done", 500))
          /\ UNCHANGED <<auth, tables, resp, writes>>
        ELSE
          /\ sessions' = (sessions \ matched)
                           \cup {IF fault[1] = "scoreRead" THEN [row EXCEPT !.gr_score = 0] ELSE row}
          /\ inflight' = Append(inflight, Flight(op, user, req, "done", 200))
          /\ UNCHANGED <<auth, details, sets, meals, mealDetails, seq, resp, writes>>

FaultBodiesIn ==
  {[scheduled_date |-> d, status |-> st, exercises |-> ex] :
     d \in {0} \cup Dates, st \in {"", "COMPLETED"},
     ex \in {<<[exercise_id |-> 1, actual_reps |-> 2, weight_kg |-> 3]>>,
             <<[exercise_id |-> 2, actual_reps |-> 2, weight_kg |-> 0],
               [exercise_id |-> 1, actual_reps |-> 3, weight_kg |-> ABSENT]>>}}

NextFault ==
  \/ \E h \in Headers, body \in FaultBodiesIn, fault \in CreateFaultsIn : WorkoutsPOSTFault(h, body, fault)
  \/ \E h \in Headers, id \in SessionIdsIn, data \in SessionDataIn, fault \in UpdateFaultsIn :
       WorkoutsPUTFault(h, id, data, fault)

SpecFault == Init /\ [][NextFault]_vars

\* C21: a mutation one of whose datastore calls returned an error ends with
\* an error response, never with a success.
C21_FailedCallFailsRequest ==
  [][\A p \in DOMAIN inflight' :
       (p \notin DOMAIN inflight /\ inflight'[p].data.fault[1] # "none")
       => inflight'[p].status >= 400]_vars

\* C28: when a session-detail insert or a set insert of
\* WorkoutRepository.create fails, the request ends with an error, the
\* session row and the details and sets inserted before the failure stay
\* stored, and a later create for the same user and date is refused as
\* already existing.
C28_NoRollback ==
  [][\A p \in DOMAIN inflight' :
       (p \notin DOMAIN inflight /\ inflight'[p].op = "POST /api/workouts")
       => LET f == inflight'[p]
              fault == f.data.fault
              exercises == f.data.body.exercises
          IN /\ fault[1] \in {"detail", "sets"}
                => /\ f.status = 500
                   /\ sessions \subseteq sessions' /\ details \subseteq details' /\ sets \subseteq sets'
                   /\ \E s \in sessions' \ sessions :
                        /\ s.user_id = f.user
                        /\ s.scheduled_date = f.data.body.scheduled_date
                        /\ Cardinality({d \in details' : d.session_id = s.session_id})
                             = IF fault[1] = "detail" THEN fault[2] - 1 ELSE fault[2]
                        /\ Cardinality({x \in sets' : \E d \in details' :
                                          /\ d.session_id = s.session_id
                                          /\ d.session_detail_id = x.session_detail_id})
                             = Cardinality({i \in DOMAIN exercises :
                                  mapPosition(exercises, exercises[i].exercise_id) < fault[2]})
             /\ (/\ fault[1] = "none"
                 /\ f.user # NoUser
                 /\ exercises # <<>>
                 /\ \E s \in sessions : /\ s.user_id = f.user
                                        /\ s.scheduled_date = f.data.body.scheduled_date)
                => f.status = 409 /\ UNCHANGED tables]_vars

\* a create failed at the sets of its second exercise, leaving the session,
\* two details and one set, and a later create for the same user and date
\* was refused
C28_Witness ==
  \E p, q \in DOMAIN inflight :
    /\ p < q
    /\ inflight[p].op = "POST /api/workouts" /\ inflight[q].op = "POST /api/workouts"
    /\ inflight[p].data.fault = <<"sets", 2>> /\ inflight[p].status = 500
    /\ inflight[q].data.fault[1] = "none" /\ inflight[q].status = 409
    /\ inflight[q].user = inflight[p].user
    /\ inflight[q].data.body.scheduled_date = inflight[p].data.body.scheduled_date
    /\ \E s \in sessions :
         /\ s.session_id > 2 /\ s.user_id = inflight[p].user
         /\ Cardinality({d \in details : d.session_id = s.session_id}) = 2

\* ======================================================================
\* GET /api/summary: ProgressRepository.getSummary
\* ======================================================================

\* the days of the weekly window
WindowDays == 7

\* exercises (master data): category, "" when unset
exerciseCategory(e) == IF e = 1 THEN "Chest" ELSE IF e = 2 THEN "Cardio" ELSE ""

\* the sessions of the user scheduled in [from, to)
workoutsIn(userId, from, to) ==
  {w \in sessions : /\ w.user_id = userId
                    /\ w.scheduled_date >= from
                    /\ w.scheduled_date < to}

\* (broken variant: every status counts)
completedWorkouts_any(workouts) == workouts

\* `workouts.filter(w => w.status === 'COMPLETED')`
completedWorkouts(workouts) == {w \in workouts : w.status = "COMPLETED"}

\* `Array.from(new Set(dates)).sort()`
RECURSIVE sortedDates(_)
sortedDates(dates) ==
  IF dates = {} THEN <<>>
  ELSE LET first == CHOOSE d \in dates : \A x \in dates : d <= x
       IN <<first>> \o sortedDates(dates \ {first})

\* the forEach over uniqueDates, from position i on; the result is
\* <<longestStreak, currentStreak>>
RECURSIVE streakLoop(_, _, _, _)
streakLoop(uniqueDates, i, longestStreak, currentStreak) ==
  IF i > Len(uniqueDates) THEN <<longestStreak, currentStreak>>
  ELSE IF i = 1 THEN streakLoop(uniqueDates, 2, longestStreak, 1)
  ELSE LET daysDiff == uniqueDates[i] - uniqueDates[i - 1]
       IN IF daysDiff = 1
          THEN streakLoop(uniqueDates, i + 1, longestStreak, currentStreak + 1)
          ELSE streakLoop(uniqueDates, i + 1,
                          IF currentStreak > longestStreak THEN currentStreak ELSE longestStreak, 1)

\* longestStreak after the final Math.max
longestStreak(workouts) ==
  LET r == streakLoop(sortedDates({w.scheduled_date : w \in completedWorkouts(workouts)}), 1, 0, 0)
  IN IF r[2] > r[1] THEN r[2] ELSE r[1]

\* `if (w.gr_score) total += w.gr_score` over the rows ws
RECURSIVE sumGrScore(_)
sumGrScore(ws) ==
  IF ws = {} THEN 0
  ELSE LET w == CHOOSE x \in ws : TRUE
       IN nz(w.gr_score) + sumGrScore(ws \ {w})

\* Math.round(n / d) for d > 0
jsRound(n, d) == (2 * n + d) \div (2 * d)

\* (broken variant: guards against a zero previous score only)
grScoreChange_nonZero(totalScore, prevGrScore) ==
  IF prevGrScore = 0 THEN 0
  ELSE IF prevGrScore > 0 THEN jsRound((totalScore - prevGrScore) * 100, prevGrScore)
  ELSE jsRound((prevGrScore - totalScore) * 100, 0 - prevGrScore)

\* `if (prevGrScore > 0) grScoreChange = Math.round(...)`, 0 otherwise
grScoreChange(totalScore, prevGrScore) ==
  IF prevGrScore > 0 THEN jsRound((totalScore - prevGrScore) * 100, prevGrScore) ELSE 0

\* detailForce of one detail, in tenths: reps * effectiveWeight * difficulty,
\* effectiveWeight being 1 for a weight that is not positive
RECURSIVE detailForce(_, _)
detailForce(logs, difficulty) ==
  IF logs = {} THEN 0
  ELSE LET l == CHOOSE x \in logs : TRUE
           weight == nz(l.weight_kg)
           effectiveWeight == IF weight > 0 THEN weight ELSE 1
       IN nz(l.reps) * effectiveWeight * difficulty + detailForce(logs \ {l}, difficulty)

\* `d.exercise?.category || 'Other'`
categoryOf(d) == IF exerciseCategory(d.exercise_id) = "" THEN "Other" ELSE exerciseCategory(d.exercise_id)

\* muscleGroups[category] over the details ds
RECURSIVE muscleGroup(_, _)
muscleGroup(ds, category) ==
  IF ds = {} THEN 0
  ELSE LET d == CHOOSE x \in ds : TRUE
       IN (IF categoryOf(d) = category
           THEN detailForce({s \in sets : s.session_detail_id = d.session_detail_id},
                            difficultyOf(d.exercise_id))
           ELSE 0) + muscleGroup(ds \ {d}, category)

\* the muscle_split of the response: <<name, value>> with value > 0
muscleSplit(ds) ==
  LET names == {categoryOf(d) : d \in ds}
      RECURSIVE total(_)
      total(ns) == IF ns = {} THEN 0
                   ELSE LET n == CHOOSE x \in ns : TRUE
                        IN muscleGroup(ds, n) + total(ns \ {n})
      totalForce == total(names)
      value(n) == IF totalForce > 0 THEN jsRound(muscleGroup(ds, n) * 100, totalForce) ELSE 0
  IN {<<n, value(n)>> : n \in {x \in names : value(x) > 0}}

\* getSummary for the weekly period with an explicit start date
getSummary(userId, startDate) ==
  LET workouts == workoutsIn(userId, startDate, startDate + WindowDays)
      prevWorkouts == completedWorkouts(workoutsIn(userId, startDate - WindowDays, startDate))
      completed == completedWorkouts(workouts)
      totalScore == sumGrScore(completed)
  IN [total_workouts |-> Cardinality(completed),
      gr_score |-> totalScore,
      gr_score_change |-> grScoreChange(totalScore, sumGrScore(prevWorkouts)),
      longest_streak |-> longestStreak(workouts),
      muscle_split |-> muscleSplit({d \in details : \E w \in completed : d.session_id = w.session_id})]

SummaryGET(h, period_start) ==
  /\ idle
  /\ LET op == "GET /api/summary"
         user == getAuthUser(h)
     IN IF user = NoUser
        THEN resp' = Reply(op, user, {period_start}, 401, "Unauthorized", {}, 0)
        ELSE resp' = Reply(op, user, {period_start}, 200, "", getSummary(user, period_start), 0)
  /\ UNCHANGED <<auth, tables, inflight, writes>>

\* the tables the summary is asked over.  Sessions of user 1 in the window
\* starting on day 8 and in the week before it; user 2 has a COMPLETED
\* session on day 11.
StreakSessionsIn ==
  {{[session_id |-> i, user_id |-> 1, scheduled_date |-> f[i][1], status |-> f[i][2],
     gr_score |-> NULL] : i \in 1..4}
     \cup {[session_id |-> 5, user_id |-> 2, scheduled_date |-> 11, status |-> "COMPLETED", gr_score |-> NULL],
           [session_id |-> 6, user_id |-> 1, scheduled_date |-> 7, status |-> "COMPLETED", gr_score |-> NULL]} :
   f \in [1..4 -> {8, 9, 10, 13} \X {"COMPLETED", "MISSED"}]}

\* gr_score is what create and updateSession stored, or what PUT
\* /api/ai/sessions copied from a body; weight_kg and gr_score are
\* validated by no handler to be non-negative
ScoresIn == {NULL, 0, 3, 4, 10, -4}
ScoreSessionsIn ==
  {{[session_id |-> 1, user_id |-> 1, scheduled_date |-> 8, status |-> st1, gr_score |-> g1],
    [session_id |-> 2, user_id |-> 1, scheduled_date |-> 7, status |-> st2, gr_score |-> g2],
    [session_id |-> 3, user_id |-> 1, scheduled_date |-> 6, status |-> "COMPLETED", gr_score |-> g3]} :
   st1 \in {"COMPLETED", "PENDING"}, st2 \in {"COMPLETED", "PENDING"},
   g1 \in ScoresIn, g2 \in ScoresIn, g3 \in ScoresIn}

SplitSetsIn ==
  {{[set_id |-> i, session_detail_id |-> i, reps |-> f[i][1], weight_kg |-> f[i][2],
     duration |-> 0, status |-> "COMPLETED"] : i \in 1..3} :
   f \in [1..3 -> {0, 1, 20} \X {NULL, 0, 1, 10}]}

InitSummary ==
  /\ users = InitUsers
  /\ goals = {}
  /\ now = 0
  /\ \/ /\ sessions \in StreakSessionsIn
        /\ details = {} /\ sets = {}
     \/ /\ sessions \in ScoreSessionsIn
        /\ details = {} /\ sets = {}
     \/ /\ sessions = {[session_id |-> 1, user_id |-> 1, scheduled_date |-> 8,
                        status |-> "COMPLETED", gr_score |-> NULL]}
        /\ details = {[session_detail_id |-> i, session_id |-> 1, exercise_id |-> i,
                       status |-> "COMPLETED"] : i \in 1..3}
        /\ sets \in SplitSetsIn
  /\ meals = {} /\ mealDetails = {}
  /\ seq = [sessions |-> 7, details |-> 4, sets |-> 4, mealDetails |-> 1]
  /\ resp = Reply("none", NoUser, {}, 0, "", {}, 0)
  /\ inflight = <<>>
  /\ writes = 0

NextSummary ==
  \/ \E h \in Headers : SummaryGET(h, 8)
  \/ ReturnResponse

SpecSummary == InitSummary /\ [][NextSummary]_vars

\* a summary has been returned to a user
summaryReturned == resp.op = "GET /api/summary" /\ resp.status = 200

\* the distinct scheduled dates of the COMPLETED sessions of the user in
\* the window of the summary returned
completedDates ==
  {w.scheduled_date : w \in {x \in sessions : /\ x.user_id = resp.user
                                               /\ x.status = "COMPLETED"
                                               /\ x.scheduled_date >= 8
                                               /\ x.scheduled_date < 8 + WindowDays}}

\* the length of the longest run of consecutive days in a set of days
longestRun(days) ==
  IF days = {} THEN 0
  ELSE CHOOSE n \in 1..Cardinality(days) :
         /\ \E d \in days : \A i \in 0..(n - 1) : d + i \in days
         /\ \A m \in (n + 1)..Cardinality(days) :
              ~\E d \in days : \A i \in 0..(m - 1) : d + i \in days

\* C22: longest_streak of a summary is the length of the longest run of
\* consecutive calendar days among the distinct scheduled dates of the
\* user's COMPLETED sessions in the window: 0 without any, 1 for one date, 3
\* for D, D+1, D+2, D+5.
C22_LongestStreak ==
  summaryReturned
    => /\ resp.rows.longest_streak = longestRun(completedDates)
       /\ completedDates = {} => resp.rows.longest_streak = 0
       /\ Cardinality(completedDates) = 1 => resp.rows.longest_streak = 1
       /\ completedDates = {8, 9, 10, 13} => resp.rows.longest_streak = 3

\* the summary over COMPLETED sessions on days D, D+1, D+2, D+5
C22_Witness ==
  /\ summaryReturned
  /\ completedDates = {8, 9, 10, 13}
  /\ resp.rows.longest_streak = 3

\* the sum of gr_score over the COMPLETED sessions of the user scheduled in
\* [from, to), a missing score counting 0
scoreSum(from, to) ==
  LET ws == {x \in sessions : /\ x.user_id = resp.user
                              /\ x.status = "COMPLETED"
                              /\ x.scheduled_date >= from
                              /\ x.scheduled_date < to}
      RECURSIVE sum(_)
      sum(s) == IF s = {} THEN 0
                ELSE LET w == CHOOSE x \in s : TRUE
                     IN (IF w.gr_score = NULL THEN 0 ELSE w.gr_score) + sum(s \ {w})
  IN sum(ws)

\* r is n / d rounded to the nearest integer, halves upwards (d # 0)
isRounded(r, n, d) ==
  IF d > 0 THEN (2 * r - 1) * d <= 2 * n /\ 2 * n < (2 * r + 1) * d
  ELSE (2 * r - 1) * d >= 2 * n /\ 2 * n > (2 * r + 1) * d

\* C24: gr_score_change of a summary is round(((current - previous) /
\* previous) * 100) when the previous window's score is positive and 0 when
\* it is zero or negative, current and previous being the sums of gr_score
\* over the COMPLETED sessions of the window and of the week before it.
C24_ScoreChange ==
  summaryReturned
    => LET current == scoreSum(8, 8 + WindowDays)
           previous == scoreSum(8 - WindowDays, 8)
       IN IF previous > 0
          THEN isRounded(resp.rows.gr_score_change, (current - previous) * 100, previous)
          ELSE resp.rows.gr_score_change = 0

\* C24 as stated: round(((current - previous) / previous) * 100) whenever
\* previous is not 0, and 0 when it is 0.
C24_AsStated ==
  summaryReturned
    => LET current == scoreSum(8, 8 + WindowDays)
           previous == scoreSum(8 - WindowDays, 8)
       IN IF previous # 0
          THEN isRounded(resp.rows.gr_score_change, (current - previous) * 100, previous)
          ELSE resp.rows.gr_score_change = 0

\* a summary over a window scoring 10 after a week scoring 4: 150 percent
C24_Witness ==
  /\ summaryReturned
  /\ scoreSum(8, 8 + WindowDays) = 10
  /\ scoreSum(8 - WindowDays, 8) = 4
  /\ resp.rows.gr_score_change = 150

\* the load of a category as the specification defines it, in tenths: the
\* sum of reps * weight_kg * difficulty_factor over the sets under it
specifiedLoad(category) ==
  LET ds == {d \in details : /\ categoryOf(d) = category
                             /\ \E w \in sessions : /\ w.session_id = d.session_id
                                                    /\ w.user_id = resp.user
                                                    /\ w.status = "COMPLETED"
                                                    /\ w.scheduled_date >= 8
                                                    /\ w.scheduled_date < 8 + WindowDays}
      ss == {s \in sets : \E d \in ds : s.session_detail_id = d.session_detail_id}
      RECURSIVE sum(_)
      sum(s) == IF s = {} THEN 0
                ELSE LET l == CHOOSE x \in s : TRUE
                         d == CHOOSE x \in ds : x.session_detail_id = l.session_detail_id
                     IN nz(l.reps) * nz(l.weight_kg) * difficultyOf(d.exercise_id) + sum(s \ {l})
  IN sum(ss)

\* C25: muscle_split of a summary gives, for every category, the rounded
\* integer percentage of its load (the sum of reps * weight_kg *
\* difficulty_factor over its sets, a set of weight 0 adding 0) in the
\* total over the categories, and omits the categories whose percentage
\* rounds to 0.
C25_MuscleSplit ==
  summaryReturned
    => LET names == {"Chest", "Cardio", "Other"}
           totalLoad == specifiedLoad("Chest") + specifiedLoad("Cardio") + specifiedLoad("Other")
       IN \A n \in names :
            IF totalLoad > 0 /\ ~isRounded(0, specifiedLoad(n) * 100, totalLoad)
            THEN \E v \in 1..100 : /\ <<n, v>> \in resp.rows.muscle_split
                                   /\ isRounded(v, specifiedLoad(n) * 100, totalLoad)
            ELSE \A v \in 0..100 : <<n, v>> \notin resp.rows.muscle_split

\* ======================================================================
\* GET /api/meals: MealRepository.findByUserId
\* ======================================================================

Nutrients == {"calories", "protein", "carbs", "fat", "fibers", "sugars", "zincs",
              "magnesiums", "calciums", "irons", "vitamin_a", "vitamin_c",
              "vitamin_b12", "vitamin_d"}

\* foods (master data): food 1 has 100 calories a serving and nothing else
\* set, food 2 has every value set; no other food exists.  Per-serving
\* values are held in thousandths (125 is 0.125), NULL when unset.
foodExists(f) == f \in {1, 2}
perServing(f, n) ==
  IF f = 1 THEN (IF n = "calories" THEN 100000 ELSE NULL)
  ELSE IF n = "calories" THEN 52500
  ELSE IF n = "vitamin_b12" THEN 4
  ELSE 125

\* totals[n] after the forEach over the details of a meal, in thousandths
RECURSIVE mealTotal(_, _)
mealTotal(ds, n) ==
  IF ds = {} THEN 0
  ELSE LET detail == CHOOSE x \in ds : TRUE
           servings == nz(detail.numbers_of_serving)
       IN (IF foodExists(detail.food_id) THEN nz(perServing(detail.food_id, n)) * servings ELSE 0)
            + mealTotal(ds \ {detail}, n)

\* (broken variant: cuts the third decimal off)
roundCents_floor(x) == x \div 10

\* `Math.round(x * 100) / 100` of a non-negative x: thousandths to hundredths
roundCents(x) == (x + 5) \div 10

\* findByUserId without filters: the meals of the user with their totals,
\* in hundredths
findByUserId(userId) ==
  {[meal_id |-> m.meal_id,
    total |-> [n \in Nutrients |->
                 roundCents(mealTotal({d \in mealDetails : d.meal_id = m.meal_id}, n))]] :
     m \in {x \in meals : x.user_id = userId}}

MealsGET(h, userIdParam) ==
  /\ idle
  /\ LET op == "GET /api/meals"
         user == getAuthUser(h)
         userId == IF userIdParam # ABSENT THEN userIdParam ELSE user
     IN IF userIdParam = ABSENT /\ user = NoUser
        THEN resp' = Reply(op, user, {}, 400, "User ID is required", {}, 0)
        ELSE IF user = NoUser
        THEN resp' = Reply(op, user, {}, 401, "Unauthorized", {}, 0)
        ELSE resp' = Reply(op, user, {userId}, 200, "", findByUserId(userId), 0)
  /\ UNCHANGED <<auth, tables, inflight, writes>>

\* the details of meal 1: two rows with a food that exists or not and a
\* serving count that is set or not; meal 2 has none
MealDetailsIn ==
  {{[meal_detail_id |-> i, meal_id |-> 1, food_id |-> f[i][1], numbers_of_serving |-> f[i][2]] :
      i \in 1..2} \cup extra :
   f \in [1..2 -> {1, 2, 3} \X {NULL, 1, 2, 3}],
   extra \in {{}, {[meal_detail_id |-> 3, meal_id |-> 3, food_id |-> 1, numbers_of_serving |-> 2]}}}

InitMeals ==
  /\ users = InitUsers
  /\ goals = {}
  /\ now = 0
  /\ sessions = {} /\ details = {} /\ sets = {}
  /\ meals = {[meal_id |-> 1, user_id |-> 1], [meal_id |-> 2, user_id |-> 1],
              [meal_id |-> 3, user_id |-> 2]}
  /\ mealDetails \in MealDetailsIn
  /\ seq = [sessions |-> 1, details |-> 1, sets |-> 1, mealDetails |-> 4]
  /\ resp = Reply("none", NoUser, {}, 0, "", {}, 0)
  /\ inflight = <<>>
  /\ writes = 0

NextMeals ==
  \/ \E h \in Headers, u \in UserIdsIn : MealsGET(h, u)
  \/ ReturnResponse

SpecMeals == InitMeals /\ [][NextMeals]_vars

\* the sum the specification defines for nutrient n of a meal, in
\* thousandths: per-serving value times numbers_of_serving over the detail
\* rows, a missing value or food counting 0
specifiedTotal(mealId, n) ==
  LET ds == {d \in mealDetails : d.meal_id = mealId}
      term(d) == IF ~foodExists(d.food_id) \/ perServing(d.food_id, n) = NULL
                    \/ d.numbers_of_serving = NULL
                 THEN 0 ELSE perServing(d.food_id, n) * d.numbers_of_serving
      RECURSIVE sum(_)
      sum(s) == IF s = {} THEN 0
                ELSE LET d == CHOOSE x \in s : TRUE IN term(d) + sum(s \ {d})
  IN sum(ds)

mealsReturned == resp.op = "GET /api/meals" /\ resp.status = 200

\* C23: for every meal returned and each of the 14 nutrients, the total is
\* the sum over the meal's detail rows of the per-serving value times
\* numbers_of_serving (missing value or food counting 0) rounded to two
\* decimals; a meal without detail rows has every total 0, and one food
\* with 2 servings of 100 calories gives total_calories 200.
C23_MealTotals ==
  mealsReturned
    => \A m \in resp.rows : \A n \in Nutrients :
         /\ isRounded(m.total[n], specifiedTotal(m.meal_id, n), 10)
         /\ (\A d \in mealDetails : d.meal_id # m.meal_id) => m.total[n] = 0

\* C23 as stated: the total equals the sum itself.
C23_AsStated ==
  mealsReturned
    => \A m \in resp.rows : \A n \in Nutrients :
         m.total[n] * 10 = specifiedTotal(m.meal_id, n)

\* meal 1 holds food 1 (100 calories a serving) with 2 servings and a row
\* whose food does not exist: total_calories 200.00; meal 2 has no rows
C23_Witness ==
  /\ mealsReturned
  /\ \E d \in mealDetails : d.meal_id = 1 /\ d.food_id = 1 /\ d.numbers_of_serving = 2
  /\ \E d \in mealDetails : d.meal_id = 1 /\ d.food_id = 3
  /\ \E m \in resp.rows : m.meal_id = 1 /\ m.total["calories"] = 20000
  /\ \E m \in resp.rows : m.meal_id = 2 /\ \A n \in Nutrients : m.total[n] = 0

\* ======================================================================
\* /api/nutrition/goals: NutritionRepository
\* ======================================================================

\* rows of nutrition_goals one behaviour inserts
MaxGoalId == 3

\* the targets of a goal (calories, protein, carbs, fat, fiber, hydration)
\* stand as one value
TargetsIn == {[calories_target |-> 2000], [calories_target |-> 2500]}

nextGoalId == 1 + Cardinality(goals)

\* (broken variant: a plain insert, no conflict target)
upsertGoal_insert(user_id, start_date, targets) ==
  goals \cup {[goal_id |-> nextGoalId, user_id |-> user_id,
               start_date |-> start_date, targets |-> targets]}

\* `.upsert({...}, { onConflict: 'user_id, start_date' })`: the row with
\* this user and start date takes the targets, and is inserted when there
\* is none (UNIQUE (user_id, start_date), one statement)
upsertGoal(user_id, start_date, targets) ==
  IF \E g \in goals : g.user_id = user_id /\ g.start_date = start_date
  THEN {IF g.user_id = user_id /\ g.start_date = start_date
        THEN [g EXCEPT !.targets = targets] ELSE g : g \in goals}
  ELSE goals \cup {[goal_id |-> nextGoalId, user_id |-> user_id,
                    start_date |-> start_date, targets |-> targets]}

\* newest goal of the user with start_date <= date; the set holding it, or
\* {} for the null `.maybeSingle()` gives
getActiveGoal(userId, date) ==
  LET rows == {g \in goals : g.user_id = userId /\ g.start_date <= date}
  IN IF rows = {} THEN {}
     ELSE {CHOOSE g \in rows : \A o \in rows : o.start_date <= g.start_date}

GoalsGET(h, dateParam) ==
  /\ idle
  /\ LET op == "GET /api/nutrition/goals"
         user == getAuthUser(h)
         date == IF dateParam = ABSENT THEN now ELSE dateParam
     IN IF user = NoUser
        THEN resp' = Reply(op, user, {}, 401, "Unauthorized", {}, 0)
        ELSE resp' = Reply(op, user, {date}, 200, "", getActiveGoal(user, date), 0)
  /\ UNCHANGED <<auth, tables, inflight, writes>>

GoalsPOST(h, start_date, targets) ==
  /\ idle
  /\ LET op == "POST /api/nutrition/goals"
         user == getAuthUser(h)
     IN IF user = NoUser
        THEN /\ resp' = Reply(op, user, {}, 401, "Unauthorized", {}, 0)
             /\ UNCHANGED goals
        ELSE /\ Cardinality(upsertGoal(user, start_date, targets)) <= MaxGoalId
             /\ goals' = upsertGoal(user, start_date, targets)
             /\ resp' = Reply(op, user, {start_date}, 201, "",
                              {g \in goals' : g.user_id = user /\ g.start_date = start_date}, 0)
  /\ UNCHANGED <<users, now, tables, inflight, writes>>

NextGoals ==
  \/ \E h \in Headers, d \in Dates \cup {ABSENT} : GoalsGET(h, d)
  \/ \E h \in Headers, d \in Dates, t \in TargetsIn : GoalsPOST(h, d, t)
  \/ ReturnResponse

SpecGoals == Init /\ [][NextGoals]_vars

goalUpserted == resp'.op = "POST /api/nutrition/goals" /\ resp'.status = 201
goalRead == resp'.op = "GET /api/nutrition/goals" /\ resp'.status = 200

\* the step of a successful upsert: the row of the pair is returned, it is
\* the only one of its pair, no other row changes, and a row is added only
\* when the pair had none
upsertReplaces ==
  goalUpserted =>
    /\ \E g \in goals' : /\ resp'.rows = {g}
                         /\ g.user_id = resp'.user
                         /\ g.start_date \in resp'.ids
    /\ \A g \in goals : (g.user_id # resp'.user \/ g.start_date \notin resp'.ids)
                           => g \in goals'
    /\ Cardinality(goals') =
         IF \E g \in goals : g.user_id = resp'.user /\ g.start_date \in resp'.ids
         THEN Cardinality(goals) ELSE Cardinality(goals) + 1

\* the step of a successful read: the newest goal of the caller that has
\* started, or nothing
activeGoalReturned ==
  goalRead =>
    LET mine == {g \in goals : g.user_id = resp'.user
                                /\ \A d \in resp'.ids : g.start_date <= d}
    IN IF mine = {} THEN resp'.rows = {}
       ELSE \E g \in mine : /\ resp'.rows = {g}
                            /\ \A o \in mine : o.start_date <= g.start_date

\* C26: after any sequence of upsertGoal calls there is at most one goal
\* row per (user, start_date), an upsert on an existing pair replacing its
\* targets and leaving every other row alone; getActiveGoal(user, date)
\* returns the goal of that user with the greatest start_date <= date, or
\* none when there is no such goal, and never a goal of another user.
C26_OneGoalPerDay ==
  /\ [](\A g1, g2 \in goals :
          (g1.user_id = g2.user_id /\ g1.start_date = g2.start_date) => g1 = g2)
  /\ [][upsertReplaces /\ activeGoalReturned]_vars

\* a second upsert on a pair has replaced the targets of its row; a goal of
\* another user and a goal of the caller that has not started are stored,
\* and the read returns the replaced row
C26_Witness ==
  /\ resp.op = "GET /api/nutrition/goals" /\ resp.status = 200 /\ resp.user = 1
  /\ resp.ids = {1}
  /\ \E g \in resp.rows : g.start_date = 1 /\ g.goal_id = 1 /\ g.targets.calories_target = 2500
  /\ \E g \in goals : g.user_id = 2 /\ g.start_date = 1
  /\ \E g \in goals : g.user_id = 1 /\ g.start_date = 2

\* ======================================================================
\* Session status on both surfaces: POST/PUT /api/workouts and
\* POST/PUT /api/ai/sessions with every status a body can carry; "planned"
\* is the status of the documented /api/ai/sessions request example
\* ======================================================================
StatusesIn == SessionStatuses \cup {"", "planned"}

StatusWorkoutBodiesIn ==
  {[scheduled_date |-> d, status |-> st,
    exercises |-> <<[exercise_id |-> 1, actual_reps |-> 2, weight_kg |-> 3]>>] :
     d \in Dates, st \in StatusesIn}

StatusSessionDataIn ==
  {[status |-> st, completed |-> c, scheduled_date |-> ABSENT] :
     st \in StatusesIn, c \in {"", "true", "false"}}

StatusSessionBodiesIn ==
  {[hasIds |-> b, ids |-> {1, 2}, status |-> st, session_id |-> id,
    scheduled_date |-> ABSENT, gr_score |-> ABSENT] :
     b \in BOOLEAN, st \in StatusesIn, id \in 1..2}

NextStatus ==
  \/ \E h \in Headers, body \in StatusWorkoutBodiesIn : WorkoutsPOST(h, body)
  \/ \E h \in Headers, id \in 1..2, data \in StatusSessionDataIn : WorkoutsPUT(h, id, ABSENT, data)
  \/ \E h \in Headers, d \in Dates, st \in StatusesIn : SessionsPOST(h, d, st)
  \/ \E h \in Headers, body \in StatusSessionBodiesIn : SessionsPUT(h, body)
  \/ ReturnResponse

SpecStatus == Init /\ [][NextStatus]_vars

\* C27: in every state reachable by session create and update on either
\* surface, the status of every session is one of PENDING, IN_PROGRESS,
\* COMPLETED, UNFINISHED, MISSED.
C27_StatusInEnum == \A s \in sessions : s.status \in SessionStatuses

\* ======================================================================
\* WorkoutRepository.updateLog, the version that recomputes the status of
\* the parent detail: three awaited datastore calls (update the set, read
\* the statuses of the sets of its detail, write the status of the detail),
\* between which another call may run.  inflight holds one record per call.
\* ======================================================================
LogStatusesIn == {"COMPLETED", "UNFINISHED"}

\* `allCompleted ? 'COMPLETED' : 'UNFINISHED'` over the sets of a detail
siblingStatus(session_detail_id) ==
  IF \A l \in {s \in sets : s.session_detail_id = session_detail_id} : l.status = "COMPLETED"
  THEN "COMPLETED" ELSE "UNFINISHED"

\* the update of the set, `.single()`: an error is thrown when no row has
\* the id
UpdateLogSet(logId, status) ==
  /\ idle
  /\ LET op == "updateLog"
         row == single(setRows(logId))
     IN IF row = {}
        THEN resp' = Reply(op, NoUser, {logId}, 500, "error.message", {}, 0)
               /\ UNCHANGED <<auth, tables, inflight, writes>>
        ELSE /\ Len(inflight) < MaxInflight
             /\ sets' = (sets \ row) \cup {[the(row) EXCEPT !.status = status]}
             /\ inflight' = Append(inflight,
                  Flight(op, NoUser, [set_id |-> logId,
                                      session_detail_id |-> the(row).session_detail_id,
                                      newStatus |-> ""], "updated", 0))
             /\ UNCHANGED <<auth, sessions, details, meals, mealDetails, seq, resp, writes>>

\* the read of siblingLogs and the status computed from it
UpdateLogRead(p) ==
  /\ p \in 1..Len(inflight)
  /\ inflight[p].op = "updateLog" /\ inflight[p].pc = "updated"
  /\ inflight' = [inflight EXCEPT ![p].pc = "read",
                    ![p].data.newStatus = siblingStatus(inflight[p].data.session_detail_id)]
  /\ UNCHANGED <<auth, tables, resp, writes>>

\* the update of session_details with the status computed
UpdateLogWrite(p) ==
  /\ p \in 1..Len(inflight)
  /\ inflight[p].op = "updateLog" /\ inflight[p].pc = "read"
  /\ details' = {IF d.session_detail_id = inflight[p].data.session_detail_id
                 THEN [d EXCEPT !.status = inflight[p].data.newStatus] ELSE d : d \in details}
  /\ inflight' = [inflight EXCEPT ![p].pc = "done", ![p].status = 200]
  /\ UNCHANGED <<auth, sessions, sets, meals, mealDetails, seq, resp, writes>>

\* detail 1 with two sets whose statuses the detail status agrees with
InitLog ==
  /\ users = InitUsers
  /\ goals = {}
  /\ now = 0
  /\ sessions = {[session_id |-> 1, user_id |-> 1, scheduled_date |-> 1, status |-> "PENDING", gr_score |-> NULL]}
  /\ \E st \in [1..2 -> LogStatusesIn] :
       /\ sets = {[set_id |-> i, session_detail_id |-> 1, reps |-> 5, weight_kg |-> 3,
                   duration |-> 0, status |-> st[i]] : i \in 1..2}
       /\ details = {[session_detail_id |-> 1, session_id |-> 1, exercise_id |-> 1,
                      status |-> IF \A i \in 1..2 : st[i] = "COMPLETED"
                                 THEN "COMPLETED" ELSE "UNFINISHED"]}
  /\ meals = {} /\ mealDetails = {}
  /\ seq = [sessions |-> 2, details |-> 2, sets |-> 3, mealDetails |-> 1]
  /\ resp = Reply("none", NoUser, {}, 0, "", {}, 0)
  /\ inflight = <<>>
  /\ writes = 0

NextLog ==
  \/ \E logId \in 1..3, status \in LogStatusesIn : UpdateLogSet(logId, status)
  \/ \E p \in 1..MaxInflight : UpdateLogRead(p)
  \/ \E p \in 1..MaxInflight : UpdateLogWrite(p)
  \/ ReturnResponse

SpecLog == InitLog /\ [][NextLog]_vars

\* C29: when two updateLog calls on two different sets of one detail run
\* concurrently, then once both have finished the status of the detail is
\* COMPLETED exactly when every set of the detail is COMPLETED, under every
\* interleaving of their steps.
C29_DetailAgreesAfterBoth ==
  (/\ Len(inflight) = 2
   /\ \A p \in 1..2 : inflight[p].op = "updateLog" /\ inflight[p].pc = "done"
   /\ inflight[1].data.set_id # inflight[2].data.set_id
   /\ inflight[1].data.session_detail_id = inflight[2].data.session_detail_id)
    => \A d \in details :
         d.session_detail_id = inflight[1].data.session_detail_id
           => (d.status = "COMPLETED"
                 <=> \A s \in sets : s.session_detail_id = d.session_detail_id
                                       => s.status = "COMPLETED")

\* ======================================================================
\* AuthService.login.  The email of a user stands as the user's id; the
\* result of bcrypt.compare is an input.  inflight holds one record per
\* call: what it presented, how it ended, the token it returned (0: none).
\* ======================================================================
findByEmail(email) == single({u \in users : u.user_id = email})

\* (broken variant: the password is compared before the verified flag is
\* looked at)
loginOutcome_passwordFirst(user, passwordOk, t) ==
  IF user = {} THEN "Invalid email or password"
  ELSE IF ~passwordOk THEN "Invalid email or password"
  ELSE IF the(user).verified = FALSE
  THEN IF the(user).verification_expires_at # NULL /\ the(user).verification_expires_at < t
       THEN "Verification expired. Please sign up again."
       ELSE "Email not verified"
  ELSE "token"

\* the way login ends for the row found: the message of the error thrown,
\* or "token"
loginOutcome(user, passwordOk, t) ==
  IF user = {} THEN "Invalid email or password"
  ELSE IF the(user).verified = FALSE
  THEN IF the(user).verification_expires_at # NULL /\ the(user).verification_expires_at < t
       THEN "Verification expired. Please sign up again."
       ELSE "Email not verified"
  ELSE IF ~passwordOk THEN "Invalid email or password"
  ELSE "token"

\* login up to its return or throw, or up to the awaited deleteById
LoginFind(email, passwordOk) ==
  /\ Len(inflight) < MaxAuthFlights
  /\ LET outcome == loginOutcome(findByEmail(email), passwordOk, now)
         data == [email |-> email, passwordOk |-> passwordOk, at |-> now,
                  message |-> IF outcome = "token" THEN "" ELSE outcome,
                  token |-> IF outcome = "token" THEN email ELSE 0]
     IN inflight' = Append(inflight,
          IF outcome = "Verification expired. Please sign up again."
          THEN Flight("login", NoUser, [data EXCEPT !.message = ""], "expired", 0)
          ELSE Flight("login", NoUser, data, "done", IF outcome = "token" THEN 200 ELSE 401))
  /\ UNCHANGED <<auth, tables, resp, writes>>

\* `await UserRepository.deleteById(user.user_id)` and the throw after it
LoginDelete(p) ==
  /\ p \in 1..Len(inflight)
  /\ inflight[p].op = "login" /\ inflight[p].pc = "expired"
  /\ users' = deleteById(users, inflight[p].data.email)
  /\ inflight' = [inflight EXCEPT ![p].pc = "done", ![p].status = 401,
                    ![p].data.message = "Verification expired. Please sign up again."]
  /\ UNCHANGED <<now, goals, tables, resp, writes>>

\* the emails of a verified user, of the two unverified users, and of nobody
LoginEmailsIn == {1, 3, 4, 9}

NextLogin ==
  \/ \E email \in LoginEmailsIn, passwordOk \in BOOLEAN : LoginFind(email, passwordOk)
  \/ \E p \in 1..MaxAuthFlights : LoginDelete(p)
  \/ Tick

SpecLogin == Init /\ [][NextLogin]_vars

\* the login call that starts in this step
loginStarted ==
  /\ Len(inflight') = Len(inflight) + 1
  /\ inflight'[Len(inflight')].op = "login"

\* the login call whose deleteById completes in this step
loginDeleted(p) ==
  /\ p \in 1..Len(inflight)
  /\ inflight[p].op = "login"
  /\ inflight[p].pc = "expired" /\ inflight'[p].pc = "done"

\* C30: login never returns a token for an unverified user.  For an
\* unverified user whose verification has not expired it fails with 'Email
\* not verified' and leaves the users unchanged; for an unverified user whose
\* verification has expired it deletes the user and fails with the expiry
\* error; both whether the password is right or wrong.
C30_NoTokenForUnverified ==
  [][/\ loginStarted =>
          LET f == inflight'[Len(inflight')]
          IN \A u \in users :
               (u.user_id = f.data.email /\ u.verified = FALSE) =>
                 /\ f.data.token = 0 /\ f.status # 200
                 /\ users' = users
                 /\ IF u.verification_expires_at # NULL /\ u.verification_expires_at < now
                    THEN f.pc = "expired"
                    ELSE f.pc = "done" /\ f.data.message = "Email not verified"
     /\ \A p \in 1..MaxAuthFlights :
          loginDeleted(p) =>
            /\ \A u \in users' : u.user_id # inflight[p].data.email
            /\ \A u \in users : u.user_id # inflight[p].data.email => u \in users'
            /\ inflight'[p].data.token = 0
            /\ inflight'[p].data.message = "Verification expired. Please sign up again."]_vars

\* user 3 presented the right password before expiry and was told 'Email
\* not verified'; user 4 presented the right password after expiry, was
\* deleted and told the expiry error; user 1 got a token
C30_Witness ==
  /\ Len(inflight) = 3
  /\ \E p \in 1..3 : /\ inflight[p].data.email = 3 /\ inflight[p].data.passwordOk
                     /\ inflight[p].data.message = "Email not verified"
  /\ \E p \in 1..3 : /\ inflight[p].data.email = 4 /\ inflight[p].data.passwordOk
                     /\ inflight[p].pc = "done"
                     /\ inflight[p].data.message = "Verification expired. Please sign up again."
  /\ \E p \in 1..3 : inflight[p].data.email = 1 /\ inflight[p].data.token = 1
  /\ \A u \in users : u.user_id # 4
  /\ \E u \in users : u.user_id = 3 /\ u.verified = FALSE

====
